---- MODULE Spec2Model ----
(***************************************************************************)
(* A model of samplomatic's Samplex: construction of the node graph        *)
(* (add_node, add_edge), finalize (partition into a sampling batch,        *)
(* ordered evaluation streams and a collection batch, then validation),    *)
(* and sample (three barrier-separated phases run on a thread pool through *)
(* wait_with_raise), together with the input interface (bind and           *)
(* fully_bound), the serialization of a samplex and the registry of type   *)
(* serializers, the builders of a box (get_builder, the box builders and   *)
(* the if-else builders), and the BalancedUniformPauli distribution.  Each *)
(* has its own specification over the same variables.                      *)
(***************************************************************************)
EXTENDS Integers, Sequences, FiniteSets, TLC

(***************************************************************************)
(* Bounds of the model.                                                    *)
(***************************************************************************)
MaxNodes == 3
MaxEdges == 2
MaxWorkers == 2
MaxSeed == 1

(***************************************************************************)
(* Registers.  Every register of the model has two subsystems and one      *)
(* randomization; an absent register is the empty tuple.                   *)
(***************************************************************************)
RegisterNames == {"r", "q", "u", "v", "x"}
Subsystems == {1, 2}
Absent == << >>

(***************************************************************************)
(* The nodes that can be added to a samplex.  Each is one node object; the *)
(* record gives its role (S sampling, E evaluation, C collection) and the  *)
(* footprint its class declares through instantiates(), reads_from() and   *)
(* writes_to().                                                            *)
(*   T1  TwirlSamplingNode("r", "q", UniformC1(2))                         *)
(*   T2  InjectNoiseNode("u", "v", <noise_ref>, <model>)                   *)
(*   P1  C1PastCliffordNode("cx", "r", [[0, 1]])                           *)
(*   CP  CopyNode("r", "x", C1, 2)                                         *)
(*   CL  a collection node reading "x", writing parameter_values[1, 2]     *)
(*   CQ  a collection node reading "q", writing parameter_values[1]        *)
(*   CR  a collection node reading "r", writing parameter_values[1, 2]     *)
(* and one more that only deserialization makes:                           *)
(*   TP  TwirlSamplingNode("r", "q", UniformPauli(2))                      *)
(***************************************************************************)
Range(s) == {s[k] : k \in 1..Len(s)}

NodeIds == {"T1", "T2", "P1", "CP", "CL", "CQ", "CR"}
AllNodeIds == NodeIds \cup {"TP"}

NoFootprint == [reg |-> "", idxs |-> {}, type |-> ""]

\* Distribution.register_type of the distributions a twirl can sample from.
RegisterType(distribution) ==
    CASE distribution = "UniformC1" -> "C1"
      [] distribution = "UniformPauli" -> "PAULI"
      [] distribution = "BalancedUniformPauli" -> "PAULI"
      [] distribution = "HaarU2" -> "U2"

TwirlSamplingNode(lhs_register_name, rhs_register_name, distribution) ==
    [cls |-> "TwirlSamplingNode", role |-> "S",
     lhs_register_name |-> lhs_register_name, rhs_register_name |-> rhs_register_name,
     distribution |-> distribution,
     instantiates |-> {<<lhs_register_name, RegisterType(distribution)>>,
                       <<rhs_register_name, RegisterType(distribution)>>},
     reads_from |-> NoFootprint, writes_to |-> NoFootprint,
     parameter_idxs |-> {}]

InjectNoiseNode(register_name, sign_register_name) ==
    [cls |-> "InjectNoiseNode", role |-> "S",
     register_name |-> register_name, sign_register_name |-> sign_register_name,
     instantiates |-> {<<register_name, "PAULI">>, <<sign_register_name, "Z2">>},
     reads_from |-> NoFootprint, writes_to |-> NoFootprint,
     parameter_idxs |-> {}]

C1PastCliffordNode(register_name, subsystem_idxs) ==
    [cls |-> "C1PastCliffordNode", role |-> "E",
     register_name |-> register_name, subsystem_idxs |-> subsystem_idxs,
     instantiates |-> {},
     reads_from |-> [reg |-> register_name, idxs |-> Range(subsystem_idxs), type |-> "C1"],
     writes_to |-> [reg |-> register_name, idxs |-> Range(subsystem_idxs), type |-> "C1"],
     parameter_idxs |-> {}]

CopyNode(register_name, output_name, output_type) ==
    [cls |-> "CopyNode", role |-> "E",
     register_name |-> register_name, output_name |-> output_name,
     instantiates |-> {<<output_name, output_type>>},
     reads_from |-> [reg |-> register_name, idxs |-> Subsystems, type |-> output_type],
     writes_to |-> NoFootprint,
     parameter_idxs |-> {}]

CollectionNode(register_name, register_type, template_idxs) ==
    [cls |-> "CollectionNode", role |-> "C",
     register_name |-> register_name, template_idxs |-> template_idxs,
     instantiates |-> {},
     reads_from |-> [reg |-> register_name, idxs |-> Subsystems, type |-> register_type],
     writes_to |-> NoFootprint,
     parameter_idxs |-> {}]

NodeOf(id) ==
    CASE id = "T1" -> TwirlSamplingNode("r", "q", "UniformC1")
      [] id = "TP" -> TwirlSamplingNode("r", "q", "UniformPauli")
      [] id = "T2" -> InjectNoiseNode("u", "v")
      [] id = "P1" -> C1PastCliffordNode("r", <<1, 2>>)
      [] id = "CP" -> CopyNode("r", "x", "C1")
      [] id = "CL" -> CollectionNode("x", "C1", {1, 2})
      [] id = "CQ" -> CollectionNode("q", "C1", {1})
      [] id = "CR" -> CollectionNode("r", "C1", {1, 2})

VARIABLES
    graph_nodes,          \* Samplex.graph: the node objects, by node index
    graph_edges,          \* Samplex.graph: the edges, pairs of node indices
    finalized,            \* Samplex._finalized
    sampling_nodes,       \* Samplex._sampling_nodes (node indices)
    evaluation_streams,   \* Samplex._evaluation_streams
    collection_nodes,     \* Samplex._collection_nodes
    pc,                   \* where the current call of sample is
    stream_idx,           \* sample: index of the evaluation stream being run
    futures,              \* wait_with_raise: list(futures), node indices
    status,               \* state of the future of each node's task
    examined,             \* wait_with_raise: futures as_completed has yielded
    wait_pc,              \* wait_with_raise: position in the function
    cancel_idx,           \* wait_with_raise: position of the cancel loop
    exception,            \* the exception sample is raising, "" if none
    registers,            \* sample: the registers dict
    outputs,              \* sample: the output bundle
    rng,                  \* sample: the seed of the generator
    max_workers,          \* sample: size of the thread pool
    keep_registers,       \* sample: whether registers go to the metadata
    specs,                \* Interface.specs: the names that have a specification
    defaults,             \* SamplexInput.defaults: the names that have a default
    data,                 \* Interface._data: the values bound, by name
    passthrough_params,   \* Samplex._passthrough_params
    json_data,            \* the text samplex_to_json returned last
    loaded,               \* the samplex samplex_from_json returned last
    serial_call,          \* the last call of samplex_to_json or samplex_from_json
    serial_exc,           \* the exception that call raised, "" if none
    type_registry,        \* TypeSerializer.TYPE_ID_REGISTRY
    ts_call,              \* the last class definition or call of TypeSerializer
    ts_exc,               \* the exception it raised, "" if none
    ts_result,            \* what the last TypeSerializer.deserialize returned
    build_call,           \* the box being built and where its build is
    collection,           \* get_builder: the CollectionSpec
    emission,             \* get_builder: the EmissionSpec
    builder,              \* the Builder get_builder returned, and its fields
    template_state,       \* TemplateState.template: the instructions appended
    samplex_state,        \* PreSamplex: the add_* calls made on it
    danglers,             \* PreSamplex: the danglers
    pre_nodes,            \* PreSamplex.graph: the number of nodes
    ifelse_call,          \* the if-else being built and where its build is
    dist_call,            \* the last call of BalancedUniformPauli.sample
    paulis,               \* the virtual gates of the register it returned
    noise_models,         \* Samplex._noise_models: the models, by key
    noise_call,           \* the last call of Samplex.add_noise_model
    group_call,           \* the circuit GroupGatesIntoBoxes.run is given, and where it is
    cached_gates_1q,      \* GroupGatesIntoBoxes.run: the cached nodes, by qubit
    groups,               \* GroupGatesIntoBoxes.run: the nodes of each group
    group_indices,        \* GroupGatesIntoBoxes.run: right-most group of each bit
    boxes,                \* the boxes make_and_insert_box was asked to make
    analyze_call,         \* the last call of analyze_if_else_instruction
    rx_graph,             \* the PyDiGraph replace_nodes_with_one_node mutates
    replace_call,         \* the last call of replace_nodes_with_one_node
    box_dag,              \* the dag RemoveBoxes.run is given
    remove_call           \* the last call of RemoveBoxes.run

samplexVars == <<graph_nodes, graph_edges, finalized, sampling_nodes,
                 evaluation_streams, collection_nodes>>
callVars == <<pc, stream_idx, futures, status, examined, wait_pc, cancel_idx,
              exception, registers, outputs, rng, max_workers, keep_registers>>
interfaceVars == <<specs, defaults, data>>
serialVars == <<passthrough_params, json_data, loaded, serial_call, serial_exc>>
typeVars == <<type_registry, ts_call, ts_exc, ts_result>>
buildVars == <<build_call, collection, emission, builder, template_state,
               samplex_state>>
dynamicVars == <<danglers, pre_nodes, ifelse_call>>
distributionVars == <<dist_call, paulis>>
noiseVars == <<noise_models, noise_call>>
groupingVars == <<group_call, cached_gates_1q, groups, group_indices, boxes>>
analyzeVars == <<analyze_call>>
replaceVars == <<rx_graph, replace_call>>
removeVars == <<box_dag, remove_call>>
\* The objects of the later sections.
moreVars == <<noiseVars,
             groupingVars,
             analyzeVars,
             replaceVars,
             removeVars>>
\* What the methods of Samplex leave alone.
otherVars == <<interfaceVars, serialVars, typeVars, buildVars, dynamicVars,
               distributionVars, moreVars>>
vars == <<samplexVars, callVars, otherVars>>
\* What the operations on one kind of object leave alone.
notInterfaceVars == <<samplexVars, callVars, serialVars, typeVars, buildVars,
    dynamicVars, distributionVars, moreVars>>
notSerialVars == <<samplexVars, callVars, interfaceVars, typeVars, buildVars,
    dynamicVars, distributionVars, moreVars>>
notTypeVars == <<samplexVars, callVars, interfaceVars, serialVars, buildVars,
    dynamicVars, distributionVars, moreVars>>
notBuildVars == <<samplexVars, callVars, interfaceVars, serialVars, typeVars,
    dynamicVars, distributionVars, moreVars>>
notDynamicVars == <<samplexVars, callVars, interfaceVars, serialVars, typeVars,
    buildVars, distributionVars, moreVars>>
notDistributionVars == <<samplexVars, callVars, interfaceVars, serialVars, typeVars,
    buildVars, dynamicVars, moreVars>>
\* What the operations of the later sections leave alone.
baseVars == <<samplexVars, callVars, interfaceVars, serialVars, typeVars,
    buildVars, dynamicVars, distributionVars>>
notNoiseVars == <<baseVars, groupingVars, analyzeVars, replaceVars, removeVars>>
notGroupingVars == <<baseVars, noiseVars, analyzeVars, replaceVars, removeVars>>
notAnalyzeVars == <<baseVars, noiseVars, groupingVars, replaceVars, removeVars>>
notReplaceVars == <<baseVars, noiseVars, groupingVars, analyzeVars, removeVars>>
notRemoveVars == <<baseVars, noiseVars, groupingVars, analyzeVars, replaceVars>>

NodeIndices == 1..Len(graph_nodes)
Node(i) == NodeOf(graph_nodes[i])
Role(i) == Node(i).role

(***************************************************************************)
(* Helpers on finite sets of integers and sequences.                       *)
(***************************************************************************)
Min(S) == CHOOSE m \in S : \A k \in S : m <= k

RECURSIVE Ascending(_)
Ascending(S) == IF S = {} THEN << >> ELSE <<Min(S)>> \o Ascending(S \ {Min(S)})

RECURSIVE Flatten(_)
Flatten(ss) == IF ss = << >> THEN << >> ELSE Head(ss) \o Flatten(Tail(ss))

(***************************************************************************)
(* finalize: the partition of the graph.                                   *)
(***************************************************************************)
\* The nodes finalize appends to sampling_nodes, in node-index order.
FinalizeSamplingNodes(nodes) ==
    Ascending({i \in 1..Len(nodes) : NodeOf(nodes[i]).role = "S"})

\* The nodes finalize appends to collection_nodes, in node-index order.
FinalizeCollectionNodes(nodes) ==
    Ascending({i \in 1..Len(nodes) : NodeOf(nodes[i]).role = "C"})

\* The nodes left in cut_graph once sampling and collection nodes are removed
\* (removing a node removes its edges with it).
CutGraphKeepsCollection(nodes) ==
    {i \in 1..Len(nodes) : NodeOf(nodes[i]).role \notin {"S"}}

CutGraphNodes(nodes) ==
    {i \in 1..Len(nodes) : NodeOf(nodes[i]).role \notin {"S", "C"}}

\* rustworkx.topological_generations on the nodes `remaining` of the graph:
\* each generation is the nodes with no predecessor among the nodes not yet
\* emitted.  On a cycle no node is ready and the traversal stops short.
RECURSIVE TopologicalGenerations(_, _)
TopologicalGenerations(remaining, edges) ==
    LET ready == {n \in remaining : \A m \in remaining : <<m, n>> \notin edges}
    IN  IF remaining = {} \/ ready = {} THEN << >>
        ELSE <<Ascending(ready)>> \o TopologicalGenerations(remaining \ ready, edges)

FinalizeEvaluationStreams(nodes, edges) ==
    TopologicalGenerations(CutGraphNodes(nodes), edges)

\* topological_generations raises DAGHasCycle when the cut graph has a cycle.
DAGHasCycle(nodes, edges) ==
    Range(Flatten(FinalizeEvaluationStreams(nodes, edges))) # CutGraphNodes(nodes)

(***************************************************************************)
(* finalize: validation of the evaluation strategy.  register_descriptions *)
(* maps a register name to its type, "" when the register does not exist.  *)
(***************************************************************************)
NoRegisters == [name \in RegisterNames |-> ""]

\* VirtualRegister CONVERTABLE_TYPES: the kinds a register of kind `found`
\* can be converted to.
ConvertableTypes(found) ==
    CASE found = "PAULI" -> {"PAULI", "U2"}
      [] found = "C1" -> {"C1", "U2"}
      [] found = "Z2" -> {"Z2", "PAULI"}
      [] found = "U2" -> {"U2"}
      [] OTHER -> {}

FootprintValid(footprint, descriptions) ==
    \/ footprint.reg = ""
    \/ /\ descriptions[footprint.reg] # ""
       /\ footprint.type \in ConvertableTypes(descriptions[footprint.reg])

\* Node.validate_and_update: what the node makes of register_descriptions;
\* ok is FALSE when it raises.
NodeValidateAndUpdate(node, descriptions) ==
    IF FootprintValid(node.reads_from, descriptions)
       /\ FootprintValid(node.writes_to, descriptions)
    THEN [ok |-> TRUE,
          descriptions |->
              [name \in RegisterNames |->
                  IF \E t \in {"PAULI", "C1", "Z2", "U2"} : <<name, t>> \in node.instantiates
                  THEN CHOOSE t \in {"PAULI", "C1", "Z2", "U2"} : <<name, t>> \in node.instantiates
                  ELSE descriptions[name]]]
    ELSE [ok |-> FALSE, descriptions |-> descriptions]

\* validate_and_update over a list of node indices, in list order.
RECURSIVE ValidateList(_, _, _)
ValidateList(nodes, idxs, acc) ==
    IF idxs = << >> \/ ~acc.ok THEN acc
    ELSE ValidateList(nodes, Tail(idxs),
                      NodeValidateAndUpdate(NodeOf(nodes[Head(idxs)]), acc.descriptions))

ValidateSkipsStreams(nodes, sampling, streams, collecting) ==
    ValidateList(nodes, sampling \o collecting,
                 [ok |-> TRUE, descriptions |-> NoRegisters]).ok

\* Samplex._validate_evaluation_strategy: TRUE when it returns, FALSE when a
\* node's validate_and_update raises.
ValidateEvaluationStrategy(nodes, sampling, streams, collecting) ==
    ValidateList(nodes, sampling \o Flatten(streams) \o collecting,
                 [ok |-> TRUE, descriptions |-> NoRegisters]).ok

(***************************************************************************)
(* The state after Samplex().                                              *)
(***************************************************************************)
NoStatus == [i \in 1..MaxNodes |-> "none"]
NoValues == [name \in RegisterNames |-> Absent]
EmptyOutputs ==
    [parameter_values |-> [k \in Subsystems |-> Absent], registers |-> NoValues]

CallInit ==
    /\ pc = "idle"
    /\ stream_idx = 0
    /\ futures = << >>
    /\ status = NoStatus
    /\ examined = {}
    /\ wait_pc = ""
    /\ cancel_idx = 0
    /\ exception = ""
    /\ registers = NoValues
    /\ outputs = EmptyOutputs
    /\ rng = 0
    /\ max_workers = 1
    /\ keep_registers = FALSE

SamplexInit ==
    /\ graph_nodes = << >>
    /\ graph_edges = {}
    /\ finalized = FALSE
    /\ sampling_nodes = << >>
    /\ evaluation_streams = << >>
    /\ collection_nodes = << >>

\* No input interface has been made.
NoInterface ==
    /\ specs = {}
    /\ defaults = {}
    /\ data = << >>

\* Samplex._passthrough_params is None after Samplex().  Otherwise it is a
\* pair of index lists, the columns of parameter_values and the rows of the
\* evaluated expressions; depth is the nesting of the second list, 1 for a
\* list of integers.
NoPassthrough == [none |-> TRUE, out_idxs |-> << >>, expr_idxs |-> << >>, depth |-> 1]
NoJson == [exists |-> FALSE]
NoSamplex == [exists |-> FALSE]
NoSerialCall == [op |-> "", module |-> "", ssv |-> 0]

\* Nothing has been serialized.
NoSerialization ==
    /\ passthrough_params = NoPassthrough
    /\ json_data = NoJson
    /\ loaded = NoSamplex
    /\ serial_call = NoSerialCall
    /\ serial_exc = ""

\* TYPE_ID_REGISTRY is empty before any serializer class is defined.
TypeIds == {"t0", "t1", "t2"}
NoTypeCall == [op |-> "", id |-> "", tsvs |-> << >>, tsv |-> 0]
NoSerializers ==
    /\ type_registry = [id \in TypeIds |-> [registered |-> FALSE, tsvs |-> {}]]
    /\ ts_call = NoTypeCall
    /\ ts_exc = ""
    /\ ts_result = ""

\* CollectionSpec(qubits) and EmissionSpec(qubits): every optional field is
\* None, written "".
NewCollectionSpec == [synth |-> "", dressing |-> ""]
NewEmissionSpec ==
    [basis_change |-> "", basis_ref |-> "", noise_ref |-> "",
     twirl_register_type |-> "", twirl_gate |-> "", dressing |-> ""]
NoBuildCall ==
    [annotations |-> << >>, body |-> << >>, pc |-> "idle", idx |-> 0,
     seen_annotations |-> {}, exc |-> ""]
NoBuilder ==
    [kind |-> "", measured_qubits |-> {}, entangled_qubits |-> {},
     clbit_idxs |-> << >>]

\* No box is being built.
NoBuilding ==
    /\ build_call = NoBuildCall
    /\ collection = NewCollectionSpec
    /\ emission = NewEmissionSpec
    /\ builder = NoBuilder
    /\ template_state = << >>
    /\ samplex_state = << >>

NoIfElseCall ==
    [pc |-> "idle", kind |-> "", if_block |-> << >>, else_block |-> << >>,
     original_danglers |-> {}, if_entry |-> {}, else_entry |-> {},
     if_danglers |-> {}, else_danglers |-> {}, exc |-> ""]

\* No if-else is being built, and the pre-samplex is empty.
NoDynamic ==
    /\ danglers = {}
    /\ pre_nodes = 0
    /\ ifelse_call = NoIfElseCall

\* BalancedUniformPauli.sample has not been called.
NoDistribution ==
    /\ dist_call = [sampled |-> FALSE, num_subsystems |-> 0, size |-> 0]
    /\ paulis = << >>

\* Samplex.__init__: no noise model, and add_noise_model has not been called.
NoNoise ==
    /\ noise_models = {}
    /\ noise_call = [called |-> FALSE, noise_ref |-> << >>, model |-> "", exc |-> ""]

\* GroupGatesIntoBoxes.run has not been called.
NoGrouping ==
    /\ group_call = [pc |-> "idle", circuit |-> << >>, idx |-> 0, exc |-> ""]
    /\ cached_gates_1q = << >>
    /\ groups = << >>
    /\ group_indices = << >>
    /\ boxes = << >>

\* analyze_if_else_instruction has not been called.
NoAnalysis ==
    analyze_call = [called |-> FALSE, if_branch |-> [none |-> TRUE, circuit |-> << >>],
                    else_branch |-> [none |-> TRUE, circuit |-> << >>],
                    left |-> [kind |-> "None"], right |-> [kind |-> "None"],
                    exc |-> ""]

\* replace_nodes_with_one_node has not been called, on an empty graph.
NoReplacing ==
    /\ rx_graph = [nodes |-> {}, edges |-> << >>, free |-> << >>]
    /\ replace_call = [called |-> FALSE, node_idxs |-> << >>,
                       before |-> [nodes |-> {}, edges |-> << >>, free |-> << >>],
                       new_node_idx |-> 0, successor_edge_order |-> << >>,
                       predecessor_edge_order |-> << >>]

\* RemoveBoxes.run has not been called, and its dag is empty.
NoRemoving ==
    /\ box_dag = << >>
    /\ remove_call = [called |-> FALSE, circuit |-> << >>, new_dag |-> << >>,
                      exc |-> ""]

\* The objects of the later sections, before anything is done with them.
NoMore ==
    /\ NoNoise
    /\ NoGrouping
    /\ NoAnalysis
    /\ NoReplacing
    /\ NoRemoving

\* The objects other than the samplex, before anything is done with them.
OthersInit ==
    /\ NoMore
    /\ NoInterface
    /\ NoSerialization
    /\ NoSerializers
    /\ NoBuilding
    /\ NoDynamic
    /\ NoDistribution

Init ==
    /\ SamplexInit
    /\ CallInit
    /\ OthersInit

\* No call of sample is in progress: the caller may call a method.
Callable == pc \in {"idle", "returned", "raised"}

\* The variables of a call of sample are gone once the caller moves on.
CallReset ==
    /\ pc' = "idle"
    /\ stream_idx' = 0
    /\ futures' = << >>
    /\ status' = NoStatus
    /\ examined' = {}
    /\ wait_pc' = ""
    /\ cancel_idx' = 0
    /\ exception' = ""
    /\ registers' = NoValues
    /\ outputs' = EmptyOutputs
    /\ rng' = 0
    /\ max_workers' = 1
    /\ keep_registers' = FALSE

(***************************************************************************)
(* Samplex.add_node, Samplex.add_edge, Samplex.finalize.                   *)
(***************************************************************************)
\* The parameter check of add_node; the samplex of the model holds no
\* parameter expressions.
NumExpressions == 0
AddNodeRaises(node) ==
    /\ node.parameter_idxs # {}
    /\ \E p \in node.parameter_idxs : p >= NumExpressions

AddNodeKeepsFinalized(id) ==
    /\ Callable
    /\ Len(graph_nodes) < MaxNodes
    /\ id \notin Range(graph_nodes)
    /\ graph_nodes' = Append(graph_nodes, id)
    /\ UNCHANGED <<finalized, graph_edges, sampling_nodes, evaluation_streams,
                   collection_nodes>>
    /\ CallReset
    /\ UNCHANGED otherVars

AddNode(id) ==
    /\ Callable
    /\ Len(graph_nodes) < MaxNodes
    /\ id \notin Range(graph_nodes)
    /\ IF AddNodeRaises(NodeOf(id))
       THEN UNCHANGED samplexVars
       ELSE /\ finalized' = FALSE
            /\ graph_nodes' = Append(graph_nodes, id)
            /\ UNCHANGED <<graph_edges, sampling_nodes, evaluation_streams,
                           collection_nodes>>
    /\ CallReset
    /\ UNCHANGED otherVars

AddEdgeKeepsFinalized(a, b) ==
    /\ Callable
    /\ Cardinality(graph_edges) < MaxEdges
    /\ a \in NodeIndices /\ b \in NodeIndices
    /\ graph_edges' = graph_edges \cup {<<a, b>>}
    /\ UNCHANGED <<finalized, graph_nodes, sampling_nodes, evaluation_streams,
                   collection_nodes>>
    /\ CallReset
    /\ UNCHANGED otherVars

\* graph.add_edge(a, b, None) raises IndexError: the graph lacks an endpoint.
AddEdgeRaises(a, b) == a \notin NodeIndices \/ b \notin NodeIndices

AddEdge(a, b) ==
    /\ Callable
    /\ Cardinality(graph_edges) < MaxEdges
    /\ finalized' = FALSE
    /\ IF AddEdgeRaises(a, b)
       THEN UNCHANGED graph_edges
       ELSE graph_edges' = graph_edges \cup {<<a, b>>}
    /\ UNCHANGED <<graph_nodes, sampling_nodes, evaluation_streams, collection_nodes>>
    /\ CallReset
    /\ UNCHANGED otherVars

Finalize ==
    /\ Callable
    /\ IF DAGHasCycle(graph_nodes, graph_edges)
       THEN UNCHANGED samplexVars
       ELSE /\ sampling_nodes' = FinalizeSamplingNodes(graph_nodes)
            /\ evaluation_streams' = FinalizeEvaluationStreams(graph_nodes, graph_edges)
            /\ collection_nodes' = FinalizeCollectionNodes(graph_nodes)
            /\ finalized' =
                  IF ValidateEvaluationStrategy(graph_nodes, sampling_nodes',
                                                evaluation_streams', collection_nodes')
                  THEN TRUE ELSE finalized
            /\ UNCHANGED <<graph_nodes, graph_edges>>
    /\ CallReset
    /\ UNCHANGED otherVars

(***************************************************************************)
(* What the tasks of sample do.  C1 elements are 0 = I, 1 = Z, 2 = X,      *)
(* 3 = Y (x bit = v \div 2, z bit = v % 2) and 4 = H, a Clifford that does *)
(* not stay local under conjugation by cx.                                 *)
(***************************************************************************)
Sentinel == 0 - 1
Xor(a, b) == (a + b) % 2

\* C1_PAST_CLIFFORD_LOOKUP_TABLES["cx"][c0, c1] on the elements above: c0 is
\* on the control and c1 on the target of CXGate; the Paulis conjugate as
\* X_c -> X_c X_t, Z_t -> Z_c Z_t, and a pair with H is not local.
C1PastCliffordLookup(c0, c1) ==
    IF c0 = 4 \/ c1 = 4 THEN <<Sentinel, Sentinel>>
    ELSE <<2 * (c0 \div 2) + Xor(c0 % 2, c1 % 2),
           2 * Xor(c1 \div 2, c0 \div 2) + (c1 % 2)>>

\* Each of I, Z, X, Y, H is its own inverse as a Clifford.
InvertC1(v) == CASE v = 0 -> 0 [] v = 1 -> 1 [] v = 2 -> 2 [] v = 3 -> 3 [] v = 4 -> 4

\* What the child generator number `child` of rng.spawn draws under seed
\* `seed`: a fixed function of the two, as a pseudo-random generator is.
DrawC1(seed, child) == <<(2 + 2 * seed + child) % 5, (seed + child) % 5>>
DrawPauli(seed, child) == <<(seed + child) % 4, (1 + seed) % 4>>
DrawSign(seed, child) == <<(seed + child) % 2>>

\* rng.spawn(len(self._sampling_nodes)) zipped with the sampling nodes: the
\* number of the child generator handed to the sampling node of index i.
ChildRng(sampling, i) == (CHOOSE k \in 1..Len(sampling) : sampling[k] = i) - 1

TaskOk(regs, outs) == [exc |-> "", registers |-> regs, outputs |-> outs]
TaskRaises(exc, regs, outs) == [exc |-> exc, registers |-> regs, outputs |-> outs]

\* TwirlSamplingNode.sample
TwirlSample(node, regs, outs, seed, child) ==
    LET samples == IF node.distribution = "UniformC1"
                   THEN DrawC1(seed, child) ELSE DrawPauli(seed, child)
    IN  TaskOk([regs EXCEPT ![node.lhs_register_name] = samples,
                            ![node.rhs_register_name] =
                                [k \in 1..Len(samples) |-> InvertC1(samples[k])]],
               outs)

\* InjectNoiseNode.sample
InjectNoiseSample(node, regs, outs, seed, child) ==
    TaskOk([regs EXCEPT ![node.register_name] = DrawPauli(seed, child),
                        ![node.sign_register_name] = DrawSign(seed, child)],
           outs)

\* C1PastCliffordNode.evaluate
C1PastCliffordEvaluate(node, regs, outs) ==
    IF regs[node.register_name] = Absent THEN TaskRaises("KeyError", regs, outs)
    ELSE LET reg == regs[node.register_name]
             subsys == node.subsystem_idxs
             c1_out == C1PastCliffordLookup(reg[subsys[1]], reg[subsys[2]])
         IN  IF c1_out[1] < 0 \/ c1_out[2] < 0
             THEN TaskRaises("SamplexRuntimeError", regs, outs)
             ELSE TaskOk([regs EXCEPT ![node.register_name] =
                              [reg EXCEPT ![subsys[1]] = c1_out[1],
                                          ![subsys[2]] = c1_out[2]]],
                         outs)

\* CopyNode.evaluate
CopyEvaluate(node, regs, outs) ==
    IF regs[node.register_name] = Absent THEN TaskRaises("KeyError", regs, outs)
    ELSE TaskOk([regs EXCEPT ![node.output_name] = regs[node.register_name]], outs)

\* The collect method of a collection node: the value of each subsystem of
\* its register goes to the element of the parameter_values output that
\* template_idxs declares for it; the other elements are left alone.
Collect(node, regs, outs) ==
    IF regs[node.register_name] = Absent THEN TaskRaises("KeyError", regs, outs)
    ELSE TaskOk(regs,
                [outs EXCEPT !.parameter_values =
                    [k \in Subsystems |->
                        IF k \in node.template_idxs
                        THEN <<regs[node.register_name][k]>>
                        ELSE outs.parameter_values[k]]])

\* The task sample submits for the node of index i.
RunTask(nodes, sampling, i, regs, outs, seed) ==
    LET node == NodeOf(nodes[i])
    IN  CASE node.cls = "TwirlSamplingNode" ->
                 TwirlSample(node, regs, outs, seed, ChildRng(sampling, i))
          [] node.cls = "InjectNoiseNode" ->
                 InjectNoiseSample(node, regs, outs, seed, ChildRng(sampling, i))
          [] node.cls = "C1PastCliffordNode" -> C1PastCliffordEvaluate(node, regs, outs)
          [] node.cls = "CopyNode" -> CopyEvaluate(node, regs, outs)
          [] node.cls = "CollectionNode" -> Collect(node, regs, outs)

(***************************************************************************)
(* Samplex.sample and wait_with_raise.                                     *)
(***************************************************************************)
Done == {"finished", "KeyError", "SamplexRuntimeError"}
Failed == {"KeyError", "SamplexRuntimeError"}

\* futures = list(futures): every task of the batch is submitted to the pool.
Submit(batch) ==
    /\ futures' = batch
    /\ status' = [i \in 1..MaxNodes |-> IF i \in Range(batch) THEN "pending" ELSE status[i]]
    /\ examined' = {}
    /\ wait_pc' = "as_completed"
    /\ cancel_idx' = 0

\* sample raises before or after running nodes: nothing is returned.
Raise(exc) ==
    /\ pc' = "raised"
    /\ exception' = exc
    /\ wait_pc' = ""
    /\ registers' = NoValues
    /\ outputs' = EmptyOutputs

Sample(fully_bound, seed, workers, keep) ==
    /\ Callable
    /\ IF ~finalized \/ ~fully_bound
       THEN /\ Raise("SamplexRuntimeError")
            /\ stream_idx' = 0 /\ futures' = << >> /\ status' = NoStatus
            /\ examined' = {} /\ cancel_idx' = 0
            /\ rng' = 0 /\ max_workers' = 1 /\ keep_registers' = FALSE
       ELSE /\ pc' = "sampling"
            /\ stream_idx' = 0
            /\ exception' = ""
            /\ registers' = NoValues
            /\ outputs' = EmptyOutputs
            /\ rng' = seed /\ max_workers' = workers /\ keep_registers' = keep
            /\ futures' = sampling_nodes
            /\ status' = [i \in 1..MaxNodes |->
                            IF i \in Range(sampling_nodes) THEN "pending" ELSE "none"]
            /\ examined' = {}
            /\ wait_pc' = "as_completed"
            /\ cancel_idx' = 0
    /\ UNCHANGED <<samplexVars, otherVars>>

Running == {i \in NodeIndices : status[i] = "running"}
Pending == {k \in 1..Len(futures) : status[futures[k]] = "pending"}

\* A pool thread takes the oldest work item that has not been cancelled.
StartTask ==
    /\ pc \in {"sampling", "evaluation", "collection"}
    /\ Pending # {}
    /\ Cardinality(Running) < max_workers
    /\ status' = [status EXCEPT ![futures[Min(Pending)]] = "running"]
    /\ UNCHANGED <<samplexVars, otherVars, pc, stream_idx, futures, examined, wait_pc, cancel_idx,
                   exception, registers, outputs, rng, max_workers, keep_registers>>

\* A pool thread runs a task to its end, which sets the future's result.
FinishTask(i) ==
    /\ pc \in {"sampling", "evaluation", "collection"}
    /\ i \in NodeIndices /\ status[i] = "running"
    /\ LET r == RunTask(graph_nodes, sampling_nodes, i, registers, outputs, rng)
       IN  /\ status' = [status EXCEPT ![i] = IF r.exc = "" THEN "finished" ELSE r.exc]
           /\ registers' = r.registers
           /\ outputs' = r.outputs
    /\ UNCHANGED <<samplexVars, otherVars, pc, stream_idx, futures, examined, wait_pc, cancel_idx,
                   exception, rng, max_workers, keep_registers>>

ExceptionIgnored(task_status) == ""

\* completed_task.exception(): the exception the task raised, "" for None.
TaskException(task_status) == IF task_status \in Failed THEN task_status ELSE ""

\* for completed_task in as_completed(futures): one iteration.
AsCompleted(i) ==
    /\ wait_pc = "as_completed"
    /\ i \in Range(futures) \ examined
    /\ status[i] \in Done
    /\ IF TaskException(status[i]) # ""
       THEN /\ exception' = TaskException(status[i])
            /\ wait_pc' = "cancel"
            /\ cancel_idx' = 1
            /\ UNCHANGED examined
       ELSE /\ examined' = examined \cup {i}
            /\ UNCHANGED <<exception, wait_pc, cancel_idx>>
    /\ UNCHANGED <<samplexVars, otherVars, pc, stream_idx, futures, status, registers, outputs,
                   rng, max_workers, keep_registers>>

\* for task in futures: task.cancel(), one iteration; then raise exception.
Cancel ==
    /\ wait_pc = "cancel"
    /\ cancel_idx <= Len(futures)
    /\ status' = [status EXCEPT ![futures[cancel_idx]] =
                      IF @ = "pending" THEN "cancelled" ELSE @]
    /\ cancel_idx' = cancel_idx + 1
    /\ wait_pc' = IF cancel_idx = Len(futures) THEN "wait" ELSE "cancel"
    /\ UNCHANGED <<samplexVars, otherVars, pc, stream_idx, futures, examined, exception,
                   registers, outputs, rng, max_workers, keep_registers>>

\* A wait that returns at once.
WaitSkipped(submitted, task_status) == TRUE

\* wait(futures) returns: every future is done, finished, failed or cancelled.
Wait(submitted, task_status) ==
    \A i \in Range(submitted) : task_status[i] \in Done \cup {"cancelled"}

\* finally: wait(futures) with the exception in flight; then the pool shuts
\* down and sample raises.
WaitRaise ==
    /\ wait_pc = "wait"
    /\ Wait(futures, status)
    /\ Raise(exception)
    /\ UNCHANGED <<samplexVars, otherVars, stream_idx, futures, status, examined, cancel_idx,
                   rng, max_workers, keep_registers>>

AsCompletedFirstOnly(submitted, yielded) == submitted = << >> \/ yielded # {}

\* The loop over as_completed(futures) ends: every future has been yielded.
AsCompletedExhausted(submitted, yielded) == yielded = Range(submitted)

\* as_completed is exhausted and wait(futures) returns: wait_with_raise
\* returns and sample goes on to its next wait_with_raise, or returns.
NextPhase ==
    /\ wait_pc = "as_completed"
    /\ AsCompletedExhausted(futures, examined)
    /\ CASE pc \in {"sampling", "evaluation"} /\ stream_idx < Len(evaluation_streams) ->
                /\ pc' = "evaluation"
                /\ stream_idx' = stream_idx + 1
                /\ Submit(evaluation_streams[stream_idx + 1])
                /\ UNCHANGED <<registers, outputs, exception>>
         [] pc \in {"sampling", "evaluation"} /\ stream_idx >= Len(evaluation_streams) ->
                /\ pc' = "collection"
                /\ Submit(collection_nodes)
                /\ UNCHANGED <<stream_idx, registers, outputs, exception>>
         [] pc = "collection" ->
                /\ pc' = "returned"
                /\ wait_pc' = ""
                /\ outputs' = [outputs EXCEPT !.registers =
                                   IF keep_registers THEN registers ELSE NoValues]
                /\ registers' = NoValues
                /\ UNCHANGED <<stream_idx, futures, status, examined, cancel_idx, exception>>
    /\ UNCHANGED <<samplexVars, otherVars, rng, max_workers, keep_registers>>

(***************************************************************************)
(* The input interface: Interface.bind and the fully_bound properties.     *)
(* A value is "v1" or "v2", which its specification accepts, or "bad", of  *)
(* the wrong shape or dtype.                                               *)
(***************************************************************************)
InterfaceNames == {"a", "b", "e"}
Values == {"v1", "v2", "bad"}
MaxBind == 2

\* TensorSpecification.validate_and_coerce: TRUE when it returns.
ValidateAndCoerce(value) == value # "bad"

\* The loop of Interface.bind over kwargs, a sequence of <<name, value>>: the
\* _data it leaves, whether it returns or raises part-way.
RECURSIVE BindLoop(_, _, _)
BindLoop(the_specs, the_data, kwargs) ==
    IF kwargs = << >> THEN the_data
    ELSE LET interface_name == Head(kwargs)[1]
             value == Head(kwargs)[2]
         IN  IF interface_name \notin the_specs THEN the_data
             ELSE IF ~ValidateAndCoerce(value) THEN the_data
             ELSE BindLoop(the_specs,
                           [n \in DOMAIN the_data \cup {interface_name} |->
                               IF n = interface_name THEN value ELSE the_data[n]],
                           Tail(kwargs))

\* Interface.fully_bound
InterfaceFullyBound(the_specs, the_data) ==
    IF the_specs = DOMAIN the_data THEN "True" ELSE "False"

\* SamplexInput.fully_bound: set has no method union_update, so the property
\* raises AttributeError whatever is bound.
SamplexInputFullyBound(the_specs, the_data, the_defaults) == "AttributeError"

KwargsOf(n) == {kw \in [1..n -> InterfaceNames \X Values] :
                   \A j, k \in 1..n : j # k => kw[j][1] # kw[k][1]}

Bind(kwargs) ==
    /\ data' = BindLoop(specs, data, kwargs)
    /\ UNCHANGED <<specs, defaults, notInterfaceVars>>

InitInput ==
    /\ SamplexInit
    /\ CallInit
    /\ NoMore
    /\ NoSerialization
    /\ NoSerializers
    /\ NoBuilding
    /\ NoDynamic
    /\ NoDistribution
    /\ specs \in SUBSET InterfaceNames
    /\ defaults \in SUBSET InterfaceNames
    /\ data = << >>

NextInput == \E n \in 1..MaxBind : \E kwargs \in KwargsOf(n) : Bind(kwargs)

SpecInput == InitInput /\ [][NextInput]_vars

(***************************************************************************)
(* Serialization of a samplex.  Two modules define samplex_to_json and     *)
(* samplex_from_json: samplomatic.samplex.samplex_serialization and        *)
(* samplomatic.serialization.samplex_serializer.  They differ in the       *)
(* header: how passthrough_params is written and what is raised for an     *)
(* SSV that is not supported.  The nodes are written by the serializers of *)
(* their types.                                                            *)
(***************************************************************************)
SSV == 1
SSV_MIN_SUPPORTED == 1
MaxSSV == 2
Modules == {"samplex_serialization", "samplex_serializer"}

\* NODE_TYPE_MAP: the type id of a node class; "" for a class it lacks.
NodeTypeMap(cls) ==
    CASE cls = "TwirlSamplingNode" -> "10"
      [] cls = "InjectNoiseNode" -> "5"
      [] cls = "CollectionNode" -> "1"
      [] OTHER -> ""

\* TwirlSamplingNodeSerializer.TSV1.serialize: every distribution that is
\* not HaarU2 is written as "pauli_uniform".
TwirlSamplingNodeSerialize(obj) ==
    [id |-> "10", tsv |-> 1,
     lhs_register_name |-> obj.lhs_register_name,
     rhs_register_name |-> obj.rhs_register_name,
     distribution |-> IF obj.distribution = "HaarU2" THEN "haar_u2" ELSE "pauli_uniform"]

\* TwirlSamplingNodeSerializer.TSV1.deserialize
TwirlSamplingNodeDeserialize(node_data) ==
    TwirlSamplingNode(node_data.lhs_register_name, node_data.rhs_register_name,
                      IF node_data.distribution = "haar_u2"
                      THEN "HaarU2" ELSE "UniformPauli")

\* InjectNoiseNodeSerializer.TSV1.serialize
InjectNoiseNodeSerialize(obj) ==
    [id |-> "5", tsv |-> 1,
     register_name |-> obj.register_name,
     sign_register_name |-> obj.sign_register_name]

\* InjectNoiseNodeSerializer.TSV1.deserialize
InjectNoiseNodeDeserialize(node_data) ==
    InjectNoiseNode(node_data.register_name, node_data.sign_register_name)

\* CollectTemplateValuesSerializer.TSV1.serialize
CollectTemplateValuesSerialize(obj) ==
    [id |-> "1", tsv |-> 1,
     template_idxs |-> obj.template_idxs,
     register_type |-> obj.reads_from.type,
     register_name |-> obj.register_name]

\* CollectTemplateValuesSerializer.TSV1.deserialize
CollectTemplateValuesDeserialize(node_data) ==
    CollectionNode(node_data.register_name, node_data.register_type,
                   node_data.template_idxs)

\* serialize_node of samplex_to_json, for a node whose class has a type id.
SerializeNode(node) ==
    CASE node.cls = "TwirlSamplingNode" -> TwirlSamplingNodeSerialize(node)
      [] node.cls = "InjectNoiseNode" -> InjectNoiseNodeSerialize(node)
      [] node.cls = "CollectionNode" -> CollectTemplateValuesSerialize(node)

\* The node_attrs callback of samplex_from_json.  The node objects of the
\* model are named by their place in the catalogue.
DeserializeNode(node_data) ==
    LET node == CASE node_data.id = "10" -> TwirlSamplingNodeDeserialize(node_data)
                  [] node_data.id = "5" -> InjectNoiseNodeDeserialize(node_data)
                  [] node_data.id = "1" -> CollectTemplateValuesDeserialize(node_data)
    IN  CHOOSE id \in AllNodeIds : NodeOf(id) = node

\* _serialize_passthrough_params of samplex_serialization dumps
\* [data[0], [data[1]]], serialize_passthrough_params of samplex_serializer
\* dumps [data[0], data[1]].
SerializePassthroughParams(module, the_params) ==
    IF the_params.none THEN the_params
    ELSE IF module = "samplex_serialization"
         THEN [the_params EXCEPT !.depth = the_params.depth + 1]
         ELSE the_params

\* deserialize_passthrough_params: tuple(orjson.loads(data)), or None.
DeserializePassthroughParams(text) == text

\* HeaderV1.from_samplex and node_link_json: the text of a samplex.
JsonOf(module, nodes, edges, the_params) ==
    [exists |-> TRUE, ssv |-> SSV,
     passthrough_params |-> SerializePassthroughParams(module, the_params),
     nodes |-> [i \in 1..Len(nodes) |-> SerializeNode(NodeOf(nodes[i]))],
     edges |-> edges]

\* What samplex_to_json raises: for an ssv it cannot write, a bare raise
\* statement with no active exception (a RuntimeError) in
\* samplex_serialization and SerializationError in samplex_serializer; for a
\* node whose class has no type id, the KeyError of the lookup.
ToJsonRaises(module, ssv, nodes) ==
    IF ssv < SSV_MIN_SUPPORTED \/ ssv \notin SSV_MIN_SUPPORTED..SSV
    THEN IF module = "samplex_serialization" THEN "RuntimeError" ELSE "SerializationError"
    ELSE IF \E i \in 1..Len(nodes) : NodeTypeMap(NodeOf(nodes[i]).cls) = ""
         THEN "KeyError" ELSE ""

SamplexToJson(module, ssv) ==
    /\ serial_call' = [op |-> "samplex_to_json", module |-> module, ssv |-> ssv]
    /\ serial_exc' = ToJsonRaises(module, ssv, graph_nodes)
    /\ json_data' = IF serial_exc' = ""
                    THEN JsonOf(module, graph_nodes, graph_edges, passthrough_params)
                    ELSE json_data
    /\ UNCHANGED <<passthrough_params, loaded, notSerialVars>>

\* _samplex_from_graph: what it raises for the ssv of the header.
FromGraphRaises(module, ssv) ==
    IF ssv \in SSV_MIN_SUPPORTED..SSV THEN ""
    ELSE IF module = "samplex_serialization" THEN "RuntimeError" ELSE "SerializationError"

\* samplex_from_json on a text: the samplex it returns.
SamplexFromGraph(text) ==
    [exists |-> TRUE,
     graph_nodes |-> [i \in 1..Len(text.nodes) |-> DeserializeNode(text.nodes[i])],
     graph_edges |-> text.edges,
     passthrough_params |-> DeserializePassthroughParams(text.passthrough_params)]

\* samplex_from_json(json_data), where json_data is a text samplex_to_json
\* wrote, its header naming the version ssv.
SamplexFromJson(module, ssv) ==
    /\ json_data.exists
    /\ serial_call' = [op |-> "samplex_from_json", module |-> module, ssv |-> ssv]
    /\ serial_exc' = FromGraphRaises(module, ssv)
    /\ loaded' = IF serial_exc' = "" THEN SamplexFromGraph(json_data) ELSE NoSamplex
    /\ UNCHANGED <<passthrough_params, json_data, notSerialVars>>

\* The samplexes that are serialized: up to MaxNodes nodes of the catalogue,
\* with or without an edge, and passthrough parameters as the builder sets
\* them.
PassthroughChoices ==
    {NoPassthrough,
     [none |-> FALSE, out_idxs |-> <<1>>, expr_idxs |-> <<2>>, depth |-> 1],
     [none |-> FALSE, out_idxs |-> <<2, 1>>, expr_idxs |-> <<1, 2>>, depth |-> 1]}

InitSerialization ==
    /\ \E n \in 0..MaxNodes :
          /\ graph_nodes \in [1..n -> NodeIds]
          /\ \A j, k \in 1..n : j # k => graph_nodes[j] # graph_nodes[k]
          /\ graph_edges \in {{}} \cup {{<<1, 2>>} : m \in {n} \ {0, 1}}
    /\ finalized = FALSE
    /\ sampling_nodes = << >>
    /\ evaluation_streams = << >>
    /\ collection_nodes = << >>
    /\ CallInit
    /\ NoMore
    /\ NoInterface
    /\ NoSerializers
    /\ NoBuilding
    /\ NoDynamic
    /\ NoDistribution
    /\ passthrough_params \in PassthroughChoices
    /\ json_data = NoJson
    /\ loaded = NoSamplex
    /\ serial_call = NoSerialCall
    /\ serial_exc = ""

NextSerialization ==
    \/ \E module \in Modules, ssv \in 0..MaxSSV : SamplexToJson(module, ssv)
    \/ \E module \in Modules, ssv \in 0..MaxSSV : SamplexFromJson(module, ssv)

SpecSerialization == InitSerialization /\ [][NextSerialization]_vars

(***************************************************************************)
(* TypeSerializer: the registry of serializer classes, one per type id,    *)
(* each with data serializers for some type serialization versions (TSV).  *)
(***************************************************************************)
MaxTSV == 3
MaxSerializers == 2

\* set(cls.SERIALIZERS) != range(cls.MIN_TSV, cls.MAX_TSV + 1): a set and a
\* range object are never equal, whatever they hold.
SetEqualsRange(the_set, lo, hi) == FALSE

\* The loop of TypeSerializerMeta.__new__ over the data serializers in the
\* class body, tsvs being their TSV attributes in order: TRUE when one of
\* them makes it raise TypeError.
RECURSIVE DataSerializersRaise(_, _)
DataSerializersRaise(tsvs, serializers) ==
    IF tsvs = << >> THEN FALSE
    ELSE \/ Head(tsvs) < 1
         \/ Head(tsvs) \in serializers
         \/ DataSerializersRaise(Tail(tsvs), serializers \cup {Head(tsvs)})

Max(S) == CHOOSE m \in S : \A k \in S : k <= m

\* What TypeSerializerMeta.__new__ raises for a class with type id type_id
\* ("" for None) and data serializers of the given TSVs.
NewSerializerRaises(registry, type_id, tsvs) ==
    IF type_id = "" THEN "TypeError"
    ELSE IF registry[type_id].registered THEN "TypeError"
    ELSE IF DataSerializersRaise(tsvs, {}) THEN "TypeError"
    ELSE IF Range(tsvs) # {}
            /\ ~SetEqualsRange(Range(tsvs), Min(Range(tsvs)), Max(Range(tsvs)))
         THEN "TypeError"
    ELSE ""

\* The definition of a subclass of TypeSerializer.
DefineTypeSerializer(type_id, tsvs) ==
    /\ ts_call' = [op |-> "class", id |-> type_id, tsvs |-> tsvs, tsv |-> 0]
    /\ ts_exc' = NewSerializerRaises(type_registry, type_id, tsvs)
    /\ type_registry' =
          IF ts_exc' = ""
          THEN [type_registry EXCEPT ![type_id] =
                   [registered |-> TRUE, tsvs |-> Range(tsvs)]]
          ELSE type_registry
    /\ ts_result' = ""
    /\ UNCHANGED notTypeVars

\* What TypeSerializer.deserialize raises for data with the given "id" and
\* "tsv": the KeyError of the registry for an id that is not registered (the
\* except clause re-raises it), a TypeError for comparing tsv with a MIN_TSV
\* that is None when the class has no data serializer, SerializationError
\* for any other tsv the class has no deserializer for.
DeserializeRaises(registry, type_id, tsv) ==
    IF type_id \notin TypeIds \/ ~registry[type_id].registered THEN "KeyError"
    ELSE IF tsv \in registry[type_id].tsvs THEN ""
    ELSE IF registry[type_id].tsvs = {} THEN "TypeError"
    ELSE "SerializationError"

TypeSerializerDeserialize(type_id, tsv) ==
    /\ ts_call' = [op |-> "deserialize", id |-> type_id, tsvs |-> << >>, tsv |-> tsv]
    /\ ts_exc' = DeserializeRaises(type_registry, type_id, tsv)
    /\ ts_result' = IF ts_exc' = "" THEN type_id ELSE ""
    /\ UNCHANGED <<type_registry, notTypeVars>>

InitTypeSerializer ==
    /\ SamplexInit
    /\ CallInit
    /\ OthersInit

NextTypeSerializer ==
    \/ \E type_id \in TypeIds \cup {""}, n \in 0..MaxSerializers :
          \E tsvs \in [1..n -> 0..MaxTSV] : DefineTypeSerializer(type_id, tsvs)
    \/ \E type_id \in TypeIds \cup {"unknown"}, tsv \in 0..MaxTSV :
          TypeSerializerDeserialize(type_id, tsv)

SpecTypeSerializer == InitTypeSerializer /\ [][NextTypeSerializer]_vars

(***************************************************************************)
(* Building one box: get_builder reads the annotations of the box into a   *)
(* CollectionSpec and an EmissionSpec and returns a builder; the builder's *)
(* lhs, parse (once per instruction of the body) and rhs then extend the   *)
(* template and the pre-samplex.  build_call.pc is where the build is:     *)
(* "annotations" inside the loop of get_builder, "parse" while the body is *)
(* walked, "done" or "raised" at its end.  The body holds measurements,    *)
(* one- and two-qubit gates and barriers; if_else instructions are built   *)
(* by the dynamic builders, modelled further down.                         *)
(***************************************************************************)
MaxAnnotations == 3
MaxBody == 3

Dressings == {"left", "right"}
Decompositions == {"rzsx", "rzrx"}
Groups == {"pauli", "local_c1", "balanced_pauli"}
TWIRLING_GROUPS == {"pauli", "local_c1"}
GATE_DEPENDENT_TWIRLING_GROUPS == {"local_c1"}
SUPPORTED_ANNOTATIONS == {"ChangeBasis", "Twirl", "InjectLocalClifford", "InjectNoise"}
FrameChanging == {"ChangeBasis", "InjectLocalClifford"}

\* The annotations a box may carry.  An annotation without a group, a
\* dressing or a decomposition has "" there.
Annotation(type, group, dressing, decomposition) ==
    [type |-> type, group |-> group, dressing |-> dressing,
     decomposition |-> decomposition]
Annotations ==
    {Annotation("Twirl", g, d, s) : g \in Groups, d \in Dressings, s \in Decompositions}
    \cup {Annotation(t, "", d, s) : t \in FrameChanging, d \in Dressings, s \in Decompositions}
    \cup {Annotation("InjectNoise", "", "", ""), Annotation("Unsupported", "", "", "")}

\* The instructions of a box body, on qubits 1 and 2.
Instruction(name, qubits) == [name |-> name, qubits |-> qubits]
Instructions ==
    {Instruction("measure", <<1>>), Instruction("h", <<1>>), Instruction("h", <<2>>),
     Instruction("cx", <<1, 2>>), Instruction("cz", <<1, 2>>),
     Instruction("barrier", <<1, 2>>)}
QubitsOf(instr) == {instr.qubits[k] : k \in DOMAIN instr.qubits}

SeqsUpTo(S, n) == UNION {[1..m -> S] : m \in 0..n}

\* get_synth: the synthesizer of a decomposition.
get_synth(decomposition) ==
    CASE decomposition = "rzsx" -> "RzSxSynth"
      [] decomposition = "rzrx" -> "RzRxSynth"
      [] OTHER -> ""

\* The exception classes derived from BuildError.
BuildErrors == {"BuildError", "SamplexBuildError", "TemplateBuildError"}

Parsed(exc, the_collection, the_emission) ==
    [exc |-> exc, collection |-> the_collection, emission |-> the_emission]

\* A parser tail that sets the synthesizer and never compares dressings.
ParseSynthOnly(annotation, the_collection, the_emission) ==
    LET synth == get_synth(annotation.decomposition)
        with_synth == IF the_collection.synth = ""
                      THEN [the_collection EXCEPT !.synth = synth]
                      ELSE the_collection
    IN  IF the_collection.synth # "" /\ synth # the_collection.synth
        THEN Parsed("BuildError", the_collection, the_emission)
        ELSE IF with_synth.dressing # ""
        THEN Parsed("", with_synth, the_emission)
        ELSE Parsed("", [with_synth EXCEPT !.dressing = annotation.dressing],
                    [the_emission EXCEPT !.dressing = annotation.dressing])

\* The part the three dressing parsers share: the synthesizer is compared or
\* set, then the dressing is compared or set.
ParseSynthAndDressing(annotation, the_collection, the_emission) ==
    LET synth == get_synth(annotation.decomposition)
        with_synth == IF the_collection.synth = ""
                      THEN [the_collection EXCEPT !.synth = synth]
                      ELSE the_collection
    IN  IF the_collection.synth # "" /\ synth # the_collection.synth
        THEN Parsed("BuildError", the_collection, the_emission)
        ELSE IF with_synth.dressing # ""
        THEN IF annotation.dressing # with_synth.dressing
             THEN Parsed("BuildError", with_synth, the_emission)
             ELSE Parsed("", with_synth, the_emission)
        ELSE Parsed("", [with_synth EXCEPT !.dressing = annotation.dressing],
                    [the_emission EXCEPT !.dressing = annotation.dressing])

change_basis_parser(change_basis, the_collection, the_emission) ==
    IF the_emission.basis_ref # ""
    THEN Parsed("BuildError", the_collection, the_emission)
    ELSE ParseSynthAndDressing(change_basis, the_collection,
            [the_emission EXCEPT !.basis_change = "pauli_measure",
                                 !.basis_ref = "basis_changes.ref"])

inject_local_clifford_parser(local_clifford, the_collection, the_emission) ==
    IF the_emission.basis_ref # ""
    THEN Parsed("BuildError", the_collection, the_emission)
    ELSE ParseSynthAndDressing(local_clifford, the_collection,
            [the_emission EXCEPT !.basis_change = "local_clifford",
                                 !.basis_ref = "local_cliffords.ref"])

inject_noise_parser(inject_noise, the_collection, the_emission) ==
    IF the_emission.noise_ref # ""
    THEN Parsed("BuildError", the_collection, the_emission)
    ELSE Parsed("", the_collection, [the_emission EXCEPT !.noise_ref = "noise.ref"])

twirl_parser(twirl, the_collection, the_emission) ==
    IF twirl.group \notin TWIRLING_GROUPS
    THEN Parsed("BuildError", the_collection, the_emission)
    ELSE ParseSynthAndDressing(twirl, the_collection,
            [the_emission EXCEPT !.twirl_register_type = twirl.group])

\* SUPPORTED_ANNOTATIONS[type(annotation)](annotation, collection, emission)
Parser(annotation, the_collection, the_emission) ==
    CASE annotation.type = "ChangeBasis" ->
            change_basis_parser(annotation, the_collection, the_emission)
      [] annotation.type = "Twirl" ->
            twirl_parser(annotation, the_collection, the_emission)
      [] annotation.type = "InjectLocalClifford" ->
            inject_local_clifford_parser(annotation, the_collection, the_emission)
      [] OTHER -> inject_noise_parser(annotation, the_collection, the_emission)

\* The loop of _classify_gate_dependent_twirl over the two-qubit gates of
\* the body: the exception it raises and the gate names it has seen.
RECURSIVE ClassifyLoop(_, _, _, _)
ClassifyLoop(body, i, seen_pairs, gate_names) ==
    IF i > Len(body) THEN [exc |-> "", gate_names |-> gate_names]
    ELSE IF Len(body[i].qubits) = 2 /\ body[i].name # "barrier"
    THEN IF body[i].qubits \in seen_pairs
         THEN [exc |-> "BuildError", gate_names |-> gate_names]
         ELSE ClassifyLoop(body, i + 1, seen_pairs \cup {body[i].qubits},
                           gate_names \cup {body[i].name})
    ELSE ClassifyLoop(body, i + 1, seen_pairs, gate_names)

\* A classification that demotes every gate-dependent twirl to a Pauli twirl.
ClassifyAlwaysPauli(body, the_emission) ==
    [exc |-> "", emission |-> [the_emission EXCEPT !.twirl_register_type = "pauli"]]

\* _classify_gate_dependent_twirl: raises, demotes the twirl to a Pauli twirl
\* when the body has no two-qubit gate, or records the gate of the body.
classify_gate_dependent_twirl(body, the_emission) ==
    LET looped == ClassifyLoop(body, 1, {}, {})
    IN  IF looped.exc # "" THEN [exc |-> looped.exc, emission |-> the_emission]
        ELSE IF looped.gate_names = {}
        THEN [exc |-> "",
              emission |-> [the_emission EXCEPT !.twirl_register_type = "pauli"]]
        ELSE IF Cardinality(looped.gate_names) > 1
        THEN [exc |-> "BuildError", emission |-> the_emission]
        ELSE [exc |-> "",
              emission |-> [the_emission EXCEPT
                               !.twirl_gate = CHOOSE g \in looped.gate_names : TRUE]]

\* get_builder up to its loop: no annotations give a PassthroughBuilder,
\* otherwise fresh specs are made and the loop starts.  The body of the box
\* is drawn where it is first read, after the loop.
GetBuilder(annotations) ==
    /\ build_call.pc = "idle"
    /\ IF annotations = << >>
       THEN /\ build_call' = [NoBuildCall EXCEPT !.pc = "done"]
            /\ builder' = [NoBuilder EXCEPT !.kind = "PassthroughBuilder"]
       ELSE /\ build_call' = [NoBuildCall EXCEPT !.annotations = annotations,
                                                 !.pc = "annotations"]
            /\ builder' = NoBuilder
    /\ collection' = NewCollectionSpec
    /\ emission' = NewEmissionSpec
    /\ UNCHANGED <<template_state, samplex_state, notBuildVars>>

\* One iteration of the loop of get_builder: an unsupported or repeated
\* annotation type raises, otherwise the parser of the type runs on the specs.
ParseAnnotation ==
    /\ build_call.pc = "annotations"
    /\ build_call.idx < Len(build_call.annotations)
    /\ LET annotation == build_call.annotations[build_call.idx + 1]
           parsed == Parser(annotation, collection, emission)
       IN  IF \/ annotation.type \notin SUPPORTED_ANNOTATIONS
              \/ annotation.type \in build_call.seen_annotations
           THEN /\ build_call' = [build_call EXCEPT !.pc = "raised", !.exc = "BuildError"]
                /\ UNCHANGED <<collection, emission>>
           ELSE /\ collection' = parsed.collection
                /\ emission' = parsed.emission
                /\ build_call' =
                      IF parsed.exc # ""
                      THEN [build_call EXCEPT !.pc = "raised", !.exc = parsed.exc]
                      ELSE [build_call EXCEPT
                               !.idx = @ + 1,
                               !.seen_annotations = @ \cup {annotation.type}]
    /\ UNCHANGED <<builder, template_state, samplex_state, notBuildVars>>

\* get_builder after its loop: noise needs a twirl, a gate-dependent twirl is
\* classified against the body, and the dressing chooses the builder.
ReturnBuilder(body) ==
    /\ build_call.pc = "annotations"
    /\ build_call.idx = Len(build_call.annotations)
    /\ LET classified ==
               IF emission.twirl_register_type \in GATE_DEPENDENT_TWIRLING_GROUPS
               THEN classify_gate_dependent_twirl(body, emission)
               ELSE [exc |-> "", emission |-> emission]
       IN  IF emission.noise_ref # "" /\ emission.twirl_register_type = ""
           THEN /\ build_call' = [build_call EXCEPT !.pc = "raised", !.exc = "BuildError"]
                /\ UNCHANGED <<emission, builder>>
           ELSE /\ emission' = classified.emission
                /\ IF classified.exc # ""
                   THEN /\ build_call' = [build_call EXCEPT !.body = body,
                                                            !.pc = "raised",
                                                            !.exc = classified.exc]
                        /\ UNCHANGED builder
                   ELSE /\ build_call' = [build_call EXCEPT !.body = body,
                                                            !.pc = "lhs", !.idx = 0]
                        /\ builder' = [NoBuilder EXCEPT
                                          !.kind = IF collection.dressing = "left"
                                                   THEN "LeftBoxBuilder"
                                                   ELSE "RightBoxBuilder"]
    /\ UNCHANGED <<collection, template_state, samplex_state, notBuildVars>>

Built(exc, the_builder, the_template, the_samplex) ==
    [exc |-> exc, builder |-> the_builder, template |-> the_template,
     samplex |-> the_samplex]
Call(op, arg) == [op |-> op, arg |-> arg]
AllQubits == <<1, 2>>

\* The loop of LeftBoxBuilder.parse over the qubits of a measurement: the
\* qubits recorded, and whether one of them had been measured already.
RECURSIVE MeasureLoop(_, _, _)
MeasureLoop(qubits, k, measured) ==
    IF k > Len(qubits) THEN [twice |-> FALSE, measured_qubits |-> measured]
    ELSE IF qubits[k] \in measured THEN [twice |-> TRUE, measured_qubits |-> measured]
    ELSE MeasureLoop(qubits, k + 1, measured \cup {qubits[k]})

\* A parse that appends every instruction to the template as it comes.
LeftParseAppendsAll(instr, the_builder, the_template, the_samplex) ==
    Built("", the_builder, Append(the_template, instr), the_samplex)

\* LeftBoxBuilder.parse
LeftBoxBuilderParse(instr, the_builder, the_template, the_samplex) ==
    LET measuring == MeasureLoop(instr.qubits, 1, the_builder.measured_qubits)
        entangling == [the_builder EXCEPT !.entangled_qubits = @ \cup QubitsOf(instr)]
    IN  IF instr.name = "barrier"
        THEN Built("", the_builder, Append(the_template, instr), the_samplex)
        ELSE IF instr.name = "measure"
        THEN IF measuring.twice
             THEN Built("SamplexBuildError",
                        [the_builder EXCEPT !.measured_qubits = measuring.measured_qubits],
                        the_template, the_samplex)
             ELSE Built("",
                        [the_builder EXCEPT !.measured_qubits = measuring.measured_qubits,
                                            !.clbit_idxs = @ \o instr.qubits],
                        Append(the_template, instr), the_samplex)
        ELSE IF Len(instr.qubits) = 1
        THEN IF QubitsOf(instr) \cap the_builder.measured_qubits # {}
             THEN Built("RuntimeError", the_builder, the_template, the_samplex)
             ELSE IF QubitsOf(instr) \cap the_builder.entangled_qubits # {}
             THEN Built("RuntimeError", the_builder, the_template, the_samplex)
             ELSE Built("", the_builder, the_template,
                        Append(the_samplex, Call("add_propagate", "MULTIPLY")))
        ELSE IF QubitsOf(instr) \cap the_builder.measured_qubits # {}
             THEN Built("SamplexBuildError", entangling, Append(the_template, instr),
                        the_samplex)
             ELSE Built("", entangling, Append(the_template, instr),
                        Append(the_samplex, Call("add_propagate", "PROPAGATE")))

\* RightBoxBuilder.parse
RightBoxBuilderParse(instr, the_builder, the_template, the_samplex) ==
    IF instr.name = "measure"
    THEN Built("RuntimeError", the_builder, the_template, the_samplex)
    ELSE IF instr.name = "barrier"
    THEN Built("", the_builder, Append(the_template, instr), the_samplex)
    ELSE IF Len(instr.qubits) = 1
    THEN Built("", [the_builder EXCEPT !.entangled_qubits = @ \cup QubitsOf(instr)],
               the_template, Append(the_samplex, Call("add_propagate", "MULTIPLY")))
    ELSE IF QubitsOf(instr) \cap the_builder.entangled_qubits # {}
         THEN Built("RuntimeError", the_builder, the_template, the_samplex)
         ELSE Built("", the_builder, Append(the_template, instr),
                    Append(the_samplex, Call("add_propagate", "PROPAGATE")))

\* The emissions of a box, in the order the builder adds them.
EmitCalls(order, the_emission) ==
    SelectSeq(order, LAMBDA call :
        \/ call.op \in {"add_emit_noise_left", "add_emit_noise_right"}
              /\ the_emission.noise_ref # ""
        \/ call.op \in {"add_emit_meas_basis_transform", "add_emit_prep_basis_transform"}
              /\ the_emission.basis_ref # ""
        \/ call.op = "add_emit_twirl" /\ the_emission.twirl_register_type # "")

\* BoxBuilder._append_dressed_layer followed by add_collect
DressedLayer == Instruction("dressing", AllQubits)
Barrier(label) == Instruction(label, AllQubits)

\* LeftBoxBuilder.lhs and RightBoxBuilder.lhs
Lhs ==
    /\ build_call.pc = "lhs"
    /\ IF builder.kind = "LeftBoxBuilder"
       THEN /\ template_state' = template_state \o
                   <<Barrier("barrier_L"), DressedLayer, Barrier("barrier_M")>>
            /\ samplex_state' = Append(samplex_state, Call("add_collect", collection.synth))
       ELSE /\ template_state' = Append(template_state, Barrier("barrier_L"))
            /\ samplex_state' = samplex_state \o EmitCalls(
                   <<Call("add_emit_prep_basis_transform", emission.basis_ref),
                     Call("add_emit_noise_right", emission.noise_ref),
                     Call("add_emit_twirl", emission.twirl_register_type)>>, emission)
    /\ build_call' = [build_call EXCEPT !.pc = "parse", !.idx = 0]
    /\ UNCHANGED <<collection, emission, builder, notBuildVars>>

\* builder.parse(instr) for the next instruction of the body.
Parse ==
    /\ build_call.pc = "parse"
    /\ build_call.idx < Len(build_call.body)
    /\ LET instr == build_call.body[build_call.idx + 1]
           built == IF builder.kind = "LeftBoxBuilder"
                    THEN LeftBoxBuilderParse(instr, builder, template_state, samplex_state)
                    ELSE RightBoxBuilderParse(instr, builder, template_state, samplex_state)
       IN  /\ builder' = built.builder
           /\ template_state' = built.template
           /\ samplex_state' = built.samplex
           /\ build_call' = IF built.exc # ""
                            THEN [build_call EXCEPT !.pc = "raised", !.exc = built.exc]
                            ELSE [build_call EXCEPT !.idx = @ + 1]
    /\ UNCHANGED <<collection, emission, notBuildVars>>

\* LeftBoxBuilder.rhs and RightBoxBuilder.rhs, once the body is walked.
Rhs ==
    /\ build_call.pc = "parse"
    /\ build_call.idx = Len(build_call.body)
    /\ IF builder.kind = "LeftBoxBuilder"
       THEN LET emitted == samplex_state \o EmitCalls(
                    <<Call("add_emit_noise_left", emission.noise_ref),
                      Call("add_emit_meas_basis_transform", emission.basis_ref),
                      Call("add_emit_twirl", emission.twirl_register_type)>>, emission)
                measured == emission.twirl_register_type # ""
                            /\ builder.measured_qubits # {}
            IN  /\ template_state' = Append(template_state, Barrier("barrier_R"))
                /\ IF measured /\ emission.twirl_register_type # "pauli"
                   THEN /\ samplex_state' = emitted
                        /\ build_call' = [build_call EXCEPT !.pc = "raised",
                                                            !.exc = "SamplexBuildError"]
                   ELSE /\ samplex_state' =
                              IF measured
                              THEN Append(emitted, Call("add_z2_collect", "pauli"))
                              ELSE emitted
                        /\ build_call' = [build_call EXCEPT !.pc = "done"]
       ELSE /\ template_state' = template_state \o
                   <<Barrier("barrier_M"), DressedLayer, Barrier("barrier_R")>>
            /\ samplex_state' = Append(samplex_state, Call("add_collect", collection.synth))
            /\ build_call' = [build_call EXCEPT !.pc = "done"]
    /\ UNCHANGED <<collection, emission, builder, notBuildVars>>

InitBuilder ==
    /\ SamplexInit
    /\ CallInit
    /\ OthersInit

NextBuilder ==
    \/ /\ build_call.pc = "idle"
       /\ \E annotations \in SeqsUpTo(Annotations, MaxAnnotations) :
             GetBuilder(annotations)
    \/ ParseAnnotation
    \/ \E body \in SeqsUpTo(Instructions, MaxBody) : ReturnBuilder(body)
    \/ Lhs
    \/ Parse
    \/ Rhs

SpecBuilder == InitBuilder /\ [][NextBuilder]_vars

(***************************************************************************)
(* Building an if-else inside a box: BoxLeftIfElseBuilder.build and        *)
(* BoxRightIfElseBuilder.build copy the danglers of the pre-samplex, build *)
(* the if block, put the copy back, build the else block, and add the      *)
(* danglers both blocks returned.  A dangler is a node of the pre-samplex  *)
(* graph, its type and direction, and the qubit it dangles on.             *)
(* ifelse_call.if_entry and else_entry record the danglers each call of    *)
(* build_block found on its entry.                                         *)
(***************************************************************************)
MaxBlock == 2
MaxPreNodes == 2

BlockQubits == {1, 2}
BlockInstructions ==
    {Instruction("h", <<1>>), Instruction("h", <<2>>), Instruction("cx", <<1, 2>>)}
Dangler(node, type, direction, qubit) ==
    [node |-> node, type |-> type, direction |-> direction, qubit |-> qubit]

\* The danglers a pre-samplex may hold when the if-else is reached: emissions
\* and propagations flowing right, collections and propagations waiting on
\* the left, each on one qubit, at most one per qubit and direction.
EntryDanglers ==
    {d \in SUBSET {Dangler(n, t, dir, q) :
                      n \in 1..MaxPreNodes, t \in {"PreEmit", "PreCollect"},
                      dir \in {"LEFT", "RIGHT"}, q \in BlockQubits} :
        /\ \A x \in d : (x.type = "PreEmit") = (x.direction = "RIGHT")
        /\ \A x \in d : (x.node = 1) = (x.direction = "RIGHT")
        /\ \A x, y \in d : x.qubit = y.qubit /\ x.direction = y.direction => x = y}

\* DanglerMatch and PreSamplex.find_then_remove_danglers: the danglers of a
\* direction and of some node types on the given qubits.
FindDanglers(the_danglers, direction, node_types, qubits) ==
    {x \in the_danglers :
        x.direction = direction /\ x.type \in node_types /\ x.qubit \in qubits}

PreState(the_danglers, nodes) == [danglers |-> the_danglers, nodes |-> nodes]

\* PreSamplex.add_collect: a new PreCollect node takes the danglers flowing
\* right on its qubits and dangles on the left.
add_collect(pre, qubits) ==
    LET taken == FindDanglers(pre.danglers, "RIGHT",
                              {"PreEmit", "PrePropagate", "PreCopy"}, qubits)
    IN  PreState((pre.danglers \ taken)
                    \cup {Dangler(pre.nodes + 1, "PreCollect", "LEFT", q) : q \in qubits},
                 pre.nodes + 1)

\* PreSamplex.add_propagate: a new PrePropagate node takes the place of the
\* danglers on its qubits, in their directions.
add_propagate(pre, qubits) ==
    LET taken == {x \in pre.danglers : x.qubit \in qubits}
    IN  PreState((pre.danglers \ taken)
                    \cup {Dangler(pre.nodes + 1, "PrePropagate", x.direction, x.qubit) :
                             x \in taken},
                 pre.nodes + 1)

\* The PreCopy nodes build_block adds, one for each dangler it found.
RECURSIVE CopyNodes(_, _, _)
CopyNodes(found, nodes, direction) ==
    IF found = {} THEN [copies |-> {}, nodes |-> nodes]
    ELSE LET x == CHOOSE y \in found : \A z \in found : y.qubit <= z.qubit
             rest == CopyNodes(found \ {x}, nodes + 1, direction)
         IN  [copies |-> {Dangler(nodes + 1, "PreCopy", direction, x.qubit)}
                            \cup rest.copies,
              nodes |-> rest.nodes]

BlockBuilt(exc, pre, returned) == [exc |-> exc, pre |-> pre, returned |-> returned]

\* The loop of BoxLeftIfElseBuilder.build_block over the block.
RECURSIVE LeftBlockLoop(_, _, _, _)
LeftBlockLoop(block, i, entangled_qubits, pre) ==
    IF i > Len(block) THEN BlockBuilt("", pre, {})
    ELSE IF Len(block[i].qubits) = 1
    THEN IF QubitsOf(block[i]) \cap entangled_qubits # {}
         THEN BlockBuilt("BuildError", pre, {})
         ELSE LeftBlockLoop(block, i + 1, entangled_qubits,
                            add_propagate(pre, QubitsOf(block[i])))
    ELSE LeftBlockLoop(block, i + 1, entangled_qubits \cup QubitsOf(block[i]),
                       add_propagate(pre, QubitsOf(block[i])))

\* BoxLeftIfElseBuilder.build_block
LeftBuildBlock(block, pre) ==
    LET left_types == {"PreCollect", "PrePropagate"}
        removed == PreState(pre.danglers \ FindDanglers(pre.danglers, "LEFT",
                                                         left_types, BlockQubits),
                            pre.nodes)
        looped == LeftBlockLoop(block, 1, {}, add_collect(removed, BlockQubits))
        found == FindDanglers(looped.pre.danglers, "LEFT", left_types, BlockQubits)
        copied == CopyNodes(found, looped.pre.nodes, "LEFT")
    IN  IF looped.exc # "" THEN looped
        ELSE BlockBuilt("", PreState(looped.pre.danglers \ found, copied.nodes),
                        copied.copies)

\* The loop of BoxRightIfElseBuilder.build_block over the block.
RECURSIVE RightBlockLoop(_, _, _, _)
RightBlockLoop(block, i, unentangled_qubits, pre) ==
    IF i > Len(block) THEN BlockBuilt("", pre, {})
    ELSE IF Len(block[i].qubits) = 1
    THEN RightBlockLoop(block, i + 1, unentangled_qubits \cup QubitsOf(block[i]),
                        add_propagate(pre, QubitsOf(block[i])))
    ELSE IF QubitsOf(block[i]) \cap unentangled_qubits # {}
         THEN BlockBuilt("BuildError", pre, {})
         ELSE RightBlockLoop(block, i + 1, unentangled_qubits,
                             add_propagate(pre, QubitsOf(block[i])))

\* BoxRightIfElseBuilder.build_block
RightBuildBlock(block, pre) ==
    LET found == FindDanglers(pre.danglers, "RIGHT", {"PreEmit", "PrePropagate"},
                              BlockQubits)
        copied == CopyNodes(found, pre.nodes, "RIGHT")
        looped == RightBlockLoop(block, 1, {},
                      PreState((pre.danglers \ found) \cup copied.copies, copied.nodes))
        collected == add_collect(looped.pre, BlockQubits)
    IN  IF looped.exc # "" THEN looped
        ELSE BlockBuilt("", collected,
                        {Dangler(collected.nodes, "PreCollect", "LEFT", q) :
                            q \in BlockQubits})

BuildBlock(kind, block, pre) ==
    IF kind = "BoxLeftIfElseBuilder" THEN LeftBuildBlock(block, pre)
    ELSE RightBuildBlock(block, pre)

\* build, first line: original_danglers = deepcopy(get_all_danglers()).
IfElseBuild(kind, if_block, else_block) ==
    /\ ifelse_call.pc = "idle"
    /\ ifelse_call' = [NoIfElseCall EXCEPT !.pc = "if", !.kind = kind,
                                           !.if_block = if_block,
                                           !.else_block = else_block,
                                           !.original_danglers = danglers]
    /\ UNCHANGED <<danglers, pre_nodes, notDynamicVars>>

\* build, second line: the if block is built.
BuildIfBlock ==
    /\ ifelse_call.pc = "if"
    /\ LET built == BuildBlock(ifelse_call.kind, ifelse_call.if_block,
                               PreState(danglers, pre_nodes))
       IN  /\ danglers' = built.pre.danglers
           /\ pre_nodes' = built.pre.nodes
           /\ ifelse_call' =
                  IF built.exc # ""
                  THEN [ifelse_call EXCEPT !.pc = "raised", !.exc = built.exc,
                                           !.if_entry = danglers]
                  ELSE [ifelse_call EXCEPT !.pc = "restore", !.if_entry = danglers,
                                           !.if_danglers = built.returned]
    /\ UNCHANGED notDynamicVars

\* A build that goes on to the else block with the danglers the if block left.
RestoreSkipped ==
    /\ ifelse_call.pc = "restore"
    /\ ifelse_call' = [ifelse_call EXCEPT !.pc = "else"]
    /\ UNCHANGED <<danglers, pre_nodes, notDynamicVars>>

\* build, third line: set_all_danglers(*original_danglers).
RestoreDanglers ==
    /\ ifelse_call.pc = "restore"
    /\ danglers' = ifelse_call.original_danglers
    /\ ifelse_call' = [ifelse_call EXCEPT !.pc = "else"]
    /\ UNCHANGED <<pre_nodes, notDynamicVars>>

\* build, fourth line: the else block is built.
BuildElseBlock ==
    /\ ifelse_call.pc = "else"
    /\ LET built == BuildBlock(ifelse_call.kind, ifelse_call.else_block,
                               PreState(danglers, pre_nodes))
       IN  /\ danglers' = built.pre.danglers
           /\ pre_nodes' = built.pre.nodes
           /\ ifelse_call' =
                  IF built.exc # ""
                  THEN [ifelse_call EXCEPT !.pc = "raised", !.exc = built.exc,
                                           !.else_entry = danglers]
                  ELSE [ifelse_call EXCEPT !.pc = "join", !.else_entry = danglers,
                                           !.else_danglers = built.returned]
    /\ UNCHANGED notDynamicVars

\* build, the closing loop: add_dangler for what both blocks returned.
JoinDanglers ==
    /\ ifelse_call.pc = "join"
    /\ danglers' = danglers \cup ifelse_call.if_danglers \cup ifelse_call.else_danglers
    /\ ifelse_call' = [ifelse_call EXCEPT !.pc = "done"]
    /\ UNCHANGED <<pre_nodes, notDynamicVars>>

InitDynamic ==
    /\ SamplexInit
    /\ CallInit
    /\ NoMore
    /\ NoInterface
    /\ NoSerialization
    /\ NoSerializers
    /\ NoBuilding
    /\ NoDistribution
    /\ danglers \in EntryDanglers
    /\ pre_nodes = MaxPreNodes
    /\ ifelse_call = NoIfElseCall

NextDynamic ==
    \/ /\ ifelse_call.pc = "idle"
       /\ \E kind \in {"BoxLeftIfElseBuilder", "BoxRightIfElseBuilder"},
             if_block, else_block \in SeqsUpTo(BlockInstructions, MaxBlock) :
             IfElseBuild(kind, if_block, else_block)
    \/ BuildIfBlock
    \/ RestoreDanglers
    \/ BuildElseBlock
    \/ JoinDanglers

SpecDynamic == InitDynamic /\ [][NextDynamic]_vars

(***************************************************************************)
(* BalancedUniformPauli.sample: one uniform Pauli is drawn for each        *)
(* subsystem and each block of four randomizations, the four multipliers   *)
(* are added to it, and the blocks are laid out one after the other and    *)
(* cut at size.  A Pauli is a number in 0..3.                              *)
(***************************************************************************)
MaxSize == 8
MaxSubsystems == 2

\* An unbalanced row of multipliers.
MultipliersUnbalanced == <<0, 2, 1, 1>>

\* _MULTIPLIERS
Multipliers == <<0, 2, 1, 3>>

\* size // 4 + bool(size % 4)
NumBlocks(size) == (size \div 4) + (IF size % 4 # 0 THEN 1 ELSE 0)

\* The constructor of PauliRegister reduces its values modulo 4.
PauliRegister(virtual_gates) ==
    [s \in DOMAIN virtual_gates |->
        [j \in DOMAIN virtual_gates[s] |-> virtual_gates[s][j] % 4]]

\* (_MULTIPLIERS + draws).reshape(num_subsystems, -1)[:, :size]
BalancedPaulis(num_subsystems, size, draws) ==
    [s \in 1..num_subsystems |->
        [j \in 1..size |->
            Multipliers[((j - 1) % 4) + 1] + draws[s][((j - 1) \div 4) + 1]]]

\* BalancedUniformPauli(num_subsystems).sample(size, rng); draws is what
\* rng.integers returns.
BalancedUniformPauliSample(num_subsystems, size, draws) ==
    /\ ~dist_call.sampled
    /\ dist_call' = [sampled |-> TRUE, num_subsystems |-> num_subsystems, size |-> size]
    /\ paulis' = PauliRegister(BalancedPaulis(num_subsystems, size, draws))
    /\ UNCHANGED notDistributionVars

InitDistribution ==
    /\ SamplexInit
    /\ CallInit
    /\ OthersInit

NextDistribution ==
    /\ ~dist_call.sampled
    /\ \E num_subsystems \in 1..MaxSubsystems, size \in 0..MaxSize :
          \E draws \in [1..num_subsystems -> [1..NumBlocks(size) -> 0..3]] :
             BalancedUniformPauliSample(num_subsystems, size, draws)

SpecDistribution == InitDistribution /\ [][NextDistribution]_vars

Next ==
    \/ \E id \in NodeIds : AddNode(id)
    \/ \E a, b \in 1..MaxNodes : AddEdge(a, b)
    \/ Finalize
    \/ \E fully_bound \in BOOLEAN, seed \in 0..MaxSeed, workers \in 1..MaxWorkers,
          keep \in BOOLEAN : Sample(fully_bound, seed, workers, keep)
    \/ StartTask
    \/ \E i \in NodeIndices : FinishTask(i)
    \/ \E i \in NodeIndices : AsCompleted(i)
    \/ Cancel
    \/ WaitRaise
    \/ NextPhase

Spec == Init /\ [][Next]_vars

TypeOK ==
    /\ graph_nodes \in Seq(NodeIds) /\ Len(graph_nodes) <= MaxNodes
    /\ graph_edges \subseteq (NodeIndices \X NodeIndices)
    /\ finalized \in BOOLEAN
    /\ pc \in {"idle", "sampling", "evaluation", "collection", "returned", "raised"}
    /\ \A i \in 1..MaxNodes :
          status[i] \in {"none", "pending", "running", "cancelled"} \cup Done

(***************************************************************************)
(* Properties.                                                             *)
(***************************************************************************)
Started(i) == status[i] \in {"running"} \cup Done
Completed(i) == status[i] \in Done
InCall == pc \in {"sampling", "evaluation", "collection"}

\* The batch of the plan the node of index i is in: 0 the sampling batch,
\* k the k-th evaluation stream, Len(streams) + 1 the collection batch, and
\* -1 when the plan does not hold the node.
BatchOf(i) ==
    IF i \in Range(sampling_nodes) THEN 0
    ELSE IF \E k \in 1..Len(evaluation_streams) : i \in Range(evaluation_streams[k])
    THEN CHOOSE k \in 1..Len(evaluation_streams) : i \in Range(evaluation_streams[k])
    ELSE IF i \in Range(collection_nodes) THEN Len(evaluation_streams) + 1
    ELSE 0 - 1

PlanNodes == sampling_nodes \o Flatten(evaluation_streams) \o collection_nodes

\* C1: in every execution of sample, no evaluation task starts before every
\* sampling task has completed, no task of a later evaluation stream starts
\* before every task of an earlier stream has completed, and no collection
\* task starts before every evaluation task has completed.
C1_PhaseBarriers ==
    \A i, j \in Range(PlanNodes) :
        (BatchOf(i) < BatchOf(j) /\ BatchOf(j) >= 1 /\ Started(j)) => Completed(i)

\* C1 witness: a collection task runs after a sampling and an evaluation
\* task have completed.
C1_Witness ==
    /\ pc = "collection"
    /\ \E c \in Range(collection_nodes) : status[c] = "running"
    /\ \E t \in Range(sampling_nodes) : Completed(t)
    /\ \E e \in Range(Flatten(evaluation_streams)) : Completed(e)

\* C2: for every edge A -> B of a finalized samplex graph, between distinct
\* nodes of any kind, B's task never starts before A's task has finished.
C2_EdgeOrder ==
    \A e \in graph_edges :
        (e[1] # e[2] /\ Started(e[2])) => status[e[1]] = "finished"

\* The register slots (register name, subsystem index) a node declares.
Slots(footprint) == {<<footprint.reg, k>> : k \in footprint.idxs}
WriteSlots(node) ==
    Slots(node.writes_to) \cup {<<d[1], k>> : d \in node.instantiates, k \in Subsystems}
ReadSlots(node) == Slots(node.reads_from)

\* C3: after a successful finalize, the slots written by an evaluation node
\* are disjoint from the slots read or written by any other node of the
\* same evaluation stream.
C3_StreamsDisjoint ==
    finalized =>
        \A k \in 1..Len(evaluation_streams) :
            \A a, b \in Range(evaluation_streams[k]) :
                a # b => WriteSlots(Node(a)) \cap (ReadSlots(Node(b)) \cup WriteSlots(Node(b))) = {}

\* What sample does with one worker: the tasks run one after the other in
\* the order they are submitted, and the first that raises ends the call.
RECURSIVE RunInOrder(_, _, _, _, _, _)
RunInOrder(nodes, sampling, idxs, regs, outs, seed) ==
    IF idxs = << >> THEN TaskOk(regs, outs)
    ELSE LET r == RunTask(nodes, sampling, Head(idxs), regs, outs, seed)
         IN  IF r.exc # "" THEN r
             ELSE RunInOrder(nodes, sampling, Tail(idxs), r.registers, r.outputs, seed)

SequentialSample ==
    RunInOrder(graph_nodes, sampling_nodes, PlanNodes, NoValues, EmptyOutputs, rng)

\* C4: for a fixed samplex, input, number of randomizations and seed, sample
\* ends the same way for every max_workers and every interleaving of the
\* worker threads: as it does when the tasks run one after the other.
C4_Deterministic ==
    /\ pc = "returned" =>
          /\ SequentialSample.exc = ""
          /\ outputs.parameter_values = SequentialSample.outputs.parameter_values
          /\ keep_registers => outputs.registers = SequentialSample.registers
    /\ (pc = "raised" /\ finalized /\ futures # << >>) => SequentialSample.exc # ""

\* C5: if a task submitted by sample raises, then sample does not return,
\* no task of a later batch is ever submitted, the tasks of the batch that
\* had not started when they were cancelled never run, and sample raises
\* the exception of a task that raised.
C5_RaiseCancels ==
    \A f \in NodeIndices :
        status[f] \in Failed =>
            /\ pc # "returned"
            /\ \A i \in Range(PlanNodes) : BatchOf(i) > BatchOf(f) => status[i] = "none"
            /\ wait_pc = "wait" => \A i \in Range(futures) : status[i] # "pending"
            /\ pc = "raised" =>
                  /\ exception \in Failed
                  /\ \E g \in Range(futures) : status[g] = exception
                  /\ \A i \in NodeIndices : status[i] \notin {"pending", "running"}

\* C5 witness: sample has raised the exception of a task, after cancelling
\* a task that had not started.
C5_Witness ==
    /\ pc = "raised"
    /\ exception = "SamplexRuntimeError"
    /\ \E f \in NodeIndices : status[f] \in Failed
    /\ \E i \in NodeIndices : status[i] = "cancelled"

\* The plan finalize computes for the graph as it is now.
PlanIsCurrent ==
    /\ ~DAGHasCycle(graph_nodes, graph_edges)
    /\ sampling_nodes = FinalizeSamplingNodes(graph_nodes)
    /\ evaluation_streams = FinalizeEvaluationStreams(graph_nodes, graph_edges)
    /\ collection_nodes = FinalizeCollectionNodes(graph_nodes)
    /\ ValidateEvaluationStrategy(graph_nodes, sampling_nodes, evaluation_streams,
                                  collection_nodes)

\* C6: unless finalize has succeeded on the graph as it is now (after the
\* most recent add_node or add_edge), a call of sample runs no node and
\* raises SamplexRuntimeError.
C6_SampleNeedsFinalize ==
    ~(finalized /\ PlanIsCurrent) =>
        /\ pc \in {"idle", "raised"}
        /\ \A i \in 1..MaxNodes : status[i] = "none"
        /\ pc = "raised" => exception = "SamplexRuntimeError"

\* C6 witness: sample has raised on a samplex that was finalized and then
\* given another node or edge.
C6_Witness ==
    /\ pc = "raised"
    /\ ~finalized
    /\ PlanNodes # << >>
    /\ ~PlanIsCurrent

\* C7 as claimed: the set of nodes of a finalized samplex never changes.
C7_Frozen == [][finalized => graph_nodes' = graph_nodes]_vars

\* C7: add_node on a finalized samplex adds the node and makes the samplex
\* unfinalized; the nodes do not change while the samplex stays finalized.
C7_AddNodeUnfinalizes ==
    [][(finalized /\ graph_nodes' # graph_nodes) => ~finalized']_vars

\* C7 witness: a node has been added to a samplex after it was finalized.
C7_Witness ==
    /\ ~finalized
    /\ PlanNodes # << >>
    /\ Len(graph_nodes) > Len(PlanNodes)

\* The ancestors of node i in the graph.
RECURSIVE Ancestors(_, _)
Ancestors(i, seen) ==
    LET preds == {e[1] : e \in {d \in graph_edges : d[2] = i}} \ seen
    IN  IF preds = {} THEN {}
        ELSE preds \cup UNION {Ancestors(m, seen \cup preds) : m \in preds}

Instantiates(i, reg) == \E d \in Node(i).instantiates : d[1] = reg
Reads(i) == {Node(i).reads_from.reg, Node(i).writes_to.reg} \ {""}

PlanPosition(i) == CHOOSE k \in 1..Len(PlanNodes) : PlanNodes[k] = i

C9_Partition ==
    finalized =>
        /\ Len(PlanNodes) = Len(graph_nodes)
        /\ Range(PlanNodes) = NodeIndices
        /\ Range(sampling_nodes) = {i \in NodeIndices : Role(i) = "S"}
        /\ Range(collection_nodes) = {i \in NodeIndices : Role(i) = "C"}
        /\ Range(Flatten(evaluation_streams)) = {i \in NodeIndices : Role(i) = "E"}

\* C9 witness: a finalized samplex with a sampling node, a collection node
\* and an evaluation stream.
C9_Witness ==
    /\ finalized
    /\ sampling_nodes # << >>
    /\ collection_nodes # << >>
    /\ evaluation_streams # << >>

\* C10: after any sequence of bind calls, fully_bound of a SamplexInput is
\* true if and only if every specification has a value, bound or default.
C10_FullyBound ==
    DOMAIN data # {} =>
        SamplexInputFullyBound(specs, data, defaults) =
            (IF \A name \in specs : name \in DOMAIN data \cup defaults THEN "True"
             ELSE "False")

\* The elements of the parameter_values output a collection node declares
\* that it writes.
OutputSlice(node) == IF node.role = "C" THEN node.template_idxs ELSE {}

\* C11: during the collection phase no element of an output tensor is
\* written by two collection nodes that run concurrently: the declared
\* output slices of any two collection tasks running at once are disjoint.
C11_CollectorsDisjoint ==
    pc = "collection" =>
        \A i \in Running : \A j \in Running :
            i # j => OutputSlice(Node(i)) \cap OutputSlice(Node(j)) = {}

\* The values of the input parameters a call of sample is given.
InputValues == {<<5, 6>>, <<7, 5>>}

\* sample, before the tasks: outputs["parameter_values"][:, passthrough[0]] =
\* evaluated_values[passthrough[1]].  Indexing the one-dimensional
\* evaluated_values by a list of integers gives the values in a row; by a
\* list holding one such list it gives an array of one row, which the
\* assignment broadcasts over the randomizations: the values written are the
\* same.
PassthroughOutputs(the_params, evaluated_values) ==
    IF the_params.none THEN EmptyOutputs
    ELSE [EmptyOutputs EXCEPT !.parameter_values =
             [k \in Subsystems |->
                 IF \E j \in 1..Len(the_params.out_idxs) : the_params.out_idxs[j] = k
                 THEN LET j == CHOOSE j \in 1..Len(the_params.out_idxs) :
                                   the_params.out_idxs[j] = k
                      IN  <<evaluated_values[the_params.expr_idxs[j]]>>
                 ELSE Absent]]

\* finalize, then sample with one worker: whether finalize succeeds, how
\* sample ends and the parameter_values it returns.
SampleOutcome(nodes, edges, the_params, seed, evaluated_values) ==
    IF DAGHasCycle(nodes, edges)
    THEN [finalized |-> FALSE, exc |-> "", parameter_values |-> EmptyOutputs.parameter_values]
    ELSE LET sampling == FinalizeSamplingNodes(nodes)
             streams == FinalizeEvaluationStreams(nodes, edges)
             collecting == FinalizeCollectionNodes(nodes)
         IN  IF ~ValidateEvaluationStrategy(nodes, sampling, streams, collecting)
             THEN [finalized |-> FALSE, exc |-> "",
                   parameter_values |-> EmptyOutputs.parameter_values]
             ELSE LET r == RunInOrder(nodes, sampling,
                                      sampling \o Flatten(streams) \o collecting,
                                      NoValues,
                                      PassthroughOutputs(the_params, evaluated_values),
                                      seed)
                  IN  [finalized |-> TRUE, exc |-> r.exc,
                       parameter_values |-> r.outputs.parameter_values]

\* C12: the samplex that samplex_from_json makes of the text samplex_to_json
\* wrote for a samplex x finalizes when x does and then, for every input and
\* seed, returns the parameter_values x returns, passthrough values included.
C12_RoundTrip ==
    loaded.exists =>
        \A seed \in 0..MaxSeed : \A evaluated_values \in InputValues :
            SampleOutcome(loaded.graph_nodes, loaded.graph_edges,
                          loaded.passthrough_params, seed, evaluated_values)
            = SampleOutcome(graph_nodes, graph_edges, passthrough_params,
                            seed, evaluated_values)

\* C13: samplex_from_json on a text whose SSV is below SSV_MIN_SUPPORTED or
\* above SSV raises SerializationError and returns no samplex.
C13_UnsupportedSSV ==
    (serial_call.op = "samplex_from_json"
     /\ serial_call.ssv \notin SSV_MIN_SUPPORTED..SSV) =>
        (serial_exc = "SerializationError" /\ ~loaded.exists)

\* C14: TypeSerializer.deserialize raises SerializationError for data whose
\* type id is not registered or whose TSV is not one the serializer of the
\* type supports.
C14_DeserializeErrors ==
    (/\ ts_call.op = "deserialize"
     /\ \/ ts_call.id \notin TypeIds
        \/ ~type_registry[ts_call.id].registered
        \/ ts_call.tsv \notin type_registry[ts_call.id].tsvs) =>
        ts_exc = "SerializationError"

(***************************************************************************)
(* Properties of the builders                                              *)
(***************************************************************************)
\* Two annotations of one box conflict when they have the same type, both
\* change the frame, or name different dressings or different synthesizers.
Conflict(a, b) ==
    \/ a.type = b.type
    \/ a.type \in FrameChanging /\ b.type \in FrameChanging
    \/ a.dressing # "" /\ b.dressing # "" /\ a.dressing # b.dressing
    \/ /\ a.decomposition # "" /\ b.decomposition # ""
       /\ get_synth(a.decomposition) # get_synth(b.decomposition)
Conflicting(annotations) ==
    \E j, k \in DOMAIN annotations : j # k /\ Conflict(annotations[j], annotations[k])

\* C15: get_builder returns no builder for a list of annotations holding a
\* conflict, wherever in the list the conflicting annotations stand: the
\* call is still in its loop or has raised BuildError.
C15_ConflictsRejected ==
    Conflicting(build_call.annotations) =>
        /\ build_call.pc \in {"annotations", "raised"}
        /\ build_call.pc = "raised" => build_call.exc = "BuildError"
        /\ builder = NoBuilder

\* C15 witness: a left twirl, a noise injection and then a right basis
\* change; the third annotation is the one rejected.
C15_Witness ==
    /\ build_call.pc = "raised"
    /\ build_call.exc = "BuildError"
    /\ build_call.idx = 2
    /\ Len(build_call.annotations) = 3
    /\ build_call.annotations[1].type = "Twirl"
    /\ build_call.annotations[1].dressing = "left"
    /\ build_call.annotations[2].type = "InjectNoise"
    /\ build_call.annotations[3].type = "ChangeBasis"
    /\ build_call.annotations[3].dressing = "right"
    /\ build_call.annotations[3].decomposition = build_call.annotations[1].decomposition

HasLocalC1Twirl(annotations) ==
    \E k \in DOMAIN annotations :
        annotations[k].type = "Twirl" /\ annotations[k].group = "local_c1"
HasMeasurement(body) == \E k \in DOMAIN body : body[k].name = "measure"
HasEntangler(body) == \E k \in DOMAIN body : body[k].name \in {"cx", "cz"}

\* C16 as stated: a box with a local_c1 twirl annotation and a measurement
\* is never built.
C16_C1TwirlNeverWithMeasurement ==
    HasLocalC1Twirl(build_call.annotations) /\ HasMeasurement(build_call.body)
        => build_call.pc # "done"

\* C16: a box with a local_c1 twirl annotation, a measurement and a
\* two-qubit gate is never built; when a left builder has walked its whole
\* body, rhs raises SamplexBuildError.
C16_C1TwirlWithMeasurement ==
    /\ HasLocalC1Twirl(build_call.annotations)
    /\ HasMeasurement(build_call.body)
    /\ HasEntangler(build_call.body)
    => /\ build_call.pc # "done"
       /\ /\ build_call.pc = "raised"
          /\ builder.kind = "LeftBoxBuilder"
          /\ build_call.idx = Len(build_call.body)
          => build_call.exc = "SamplexBuildError"

\* C16 witness: the box of the test, a left local_c1 twirl around a cx and
\* a measurement, has been refused by rhs.
C16_Witness ==
    /\ build_call.pc = "raised"
    /\ build_call.exc = "SamplexBuildError"
    /\ builder.kind = "LeftBoxBuilder"
    /\ emission.twirl_register_type = "local_c1"
    /\ build_call.body = <<Instruction("cx", <<1, 2>>), Instruction("measure", <<1>>)>>
    /\ build_call.idx = 2

\* C17: when a right-dressed box holds a measurement, parse of the
\* measurement raises an exception of the BuildError family.
C17_RightMeasurementBuildError ==
    /\ builder.kind = "RightBoxBuilder"
    /\ build_call.pc = "raised"
    /\ build_call.idx < Len(build_call.body)
    /\ build_call.body[build_call.idx + 1].name = "measure"
    => build_call.exc \in BuildErrors

\* C18: a step of a build that raises leaves the template, the pre-samplex
\* and both specs as they were before the annotation or instruction it
\* rejects.
C18_FailFast ==
    [][build_call.pc # "raised" /\ build_call'.pc = "raised"
          => /\ template_state' = template_state
             /\ samplex_state' = samplex_state
             /\ collection' = collection
             /\ emission' = emission]_vars

(***************************************************************************)
(* Properties of the dynamic builders                                      *)
(***************************************************************************)
\* C19: both blocks of an if-else are built against the danglers the
\* pre-samplex held on entry to the if-else: what the if block added or
\* removed is not there when the else block is entered.
C19_BranchesSeeSnapshot ==
    /\ ifelse_call.pc \in {"restore", "else", "join", "done", "raised"}
          => ifelse_call.if_entry = ifelse_call.original_danglers
    /\ ifelse_call.pc = "else" => danglers = ifelse_call.original_danglers
    /\ ifelse_call.pc \in {"join", "done"}
          => ifelse_call.else_entry = ifelse_call.original_danglers

\* C19 witness: the if block has changed the danglers, and the else block
\* has been built from the danglers of the entry.
C19_Witness ==
    /\ ifelse_call.pc = "done"
    /\ ifelse_call.original_danglers # {}
    /\ ifelse_call.if_block # << >>
    /\ ifelse_call.else_block # << >>
    /\ ifelse_call.else_entry = ifelse_call.original_danglers
    /\ ifelse_call.if_danglers # {}
    /\ danglers # ifelse_call.original_danglers

(***************************************************************************)
(* Properties of the distributions                                         *)
(***************************************************************************)
\* How many randomizations of a subsystem hold the Pauli p.
PauliCount(row, p) == Cardinality({j \in DOMAIN row : row[j] = p})

\* C20: in a sample of BalancedUniformPauli every subsystem has size
\* randomizations, each Pauli appears floor(size/4) or ceil(size/4) times
\* (both are size/4 when 4 divides size), and every complete block of four
\* consecutive randomizations holds the four Paulis.
C20_Balanced ==
    dist_call.sampled =>
        \A s \in 1..dist_call.num_subsystems :
            /\ Len(paulis[s]) = dist_call.size
            /\ \A p \in 0..3 :
                  PauliCount(paulis[s], p) \in
                      {dist_call.size \div 4, NumBlocks(dist_call.size)}
            /\ \A b \in 1..(dist_call.size \div 4) :
                  {paulis[s][4 * (b - 1) + m] : m \in 1..4} = 0..3

\* C20 witness: seven randomizations on two subsystems, a complete block and
\* a cut one, the two subsystems drawn differently.
C20_Witness ==
    /\ dist_call.sampled
    /\ dist_call.num_subsystems = 2
    /\ dist_call.size = 7
    /\ paulis[1] = <<1, 3, 2, 0, 3, 1, 0>>
    /\ paulis[2] = <<0, 2, 1, 3, 2, 0, 3>>

\* C21: wait_with_raise ends, by returning or by raising, only when every
\* future it was given is finished, failed or cancelled: no task is pending
\* or running when sample submits its next batch, returns or raises.
C21_WaitCompletes ==
    [][(pc \in {"sampling", "evaluation", "collection"}
           /\ (pc' # pc \/ stream_idx' # stream_idx))
          => /\ \A i \in Range(futures) : status[i] \in Done \cup {"cancelled"}
             /\ \A i \in NodeIndices : status[i] \notin {"pending", "running"}]_vars

\* C21 witness: sample has raised the exception of one task after waiting
\* for another, which was running when the exception was seen and finished
\* without being yielded by as_completed.
C21_Witness ==
    /\ pc = "raised"
    /\ exception \in Failed
    /\ \E j \in Range(futures) : status[j] = "finished" /\ j \notin examined

\* An instruction of the body acts on a qubit that an earlier instruction of
\* the body has measured; skipped holds the names that do not count.
ActsAfterMeasurement(body, skipped) ==
    \E j, k \in DOMAIN body :
        /\ j < k
        /\ body[j].name = "measure"
        /\ body[k].name \notin skipped
        /\ QubitsOf(body[j]) \cap QubitsOf(body[k]) # {}

\* C22 as stated: a left-dressed box in which any instruction acts on a
\* measured qubit is never built.
C22_NothingAfterMeasurement ==
    builder.kind = "LeftBoxBuilder" /\ ActsAfterMeasurement(build_call.body, {})
        => build_call.pc # "done"

\* C22: a left-dressed box in which a measurement or a gate, on one or more
\* qubits, acts on a measured qubit is never built, wherever in the body
\* the two instructions stand.
C22_NoGateAfterMeasurement ==
    builder.kind = "LeftBoxBuilder" /\ ActsAfterMeasurement(build_call.body, {"barrier"})
        => build_call.pc # "done"

\* C22 witness: parse has refused a cx on a qubit measured two instructions
\* earlier.
C22_Witness ==
    /\ builder.kind = "LeftBoxBuilder"
    /\ build_call.pc = "raised"
    /\ build_call.exc = "SamplexBuildError"
    /\ build_call.idx = 2
    /\ build_call.body =
          <<Instruction("measure", <<1>>), Instruction("h", <<2>>),
            Instruction("cx", <<1, 2>>)>>

(***************************************************************************)
(* Properties of the type serializers, continued                           *)
(***************************************************************************)
\* The versions of the data serializers of a class are valid and distinct.
ValidVersions(tsvs) ==
    /\ \A k \in DOMAIN tsvs : tsvs[k] >= 1
    /\ \A j, k \in DOMAIN tsvs : j # k => tsvs[j] # tsvs[k]
\* A version between the lowest and the highest has no data serializer.
HasGap(tsvs) ==
    \E v \in 1..MaxTSV :
        /\ v \notin Range(tsvs)
        /\ \E j, k \in DOMAIN tsvs : tsvs[j] < v /\ v < tsvs[k]

\* C23: the definition of a serializer class with a new type id and valid,
\* distinct versions raises TypeError exactly when the versions have a gap,
\* and registers the class otherwise.
C23_GapDetection ==
    [][(/\ ts_call'.op = "class"
        /\ ts_call'.id \in TypeIds
        /\ ~type_registry[ts_call'.id].registered
        /\ ValidVersions(ts_call'.tsvs))
          => /\ (ts_exc' = "TypeError") = HasGap(ts_call'.tsvs)
             /\ ~HasGap(ts_call'.tsvs) =>
                   /\ ts_exc' = ""
                   /\ type_registry'[ts_call'.id].registered]_vars

\* ---------------------------------------------------------------------------
\* Samplex.add_noise_model
\* ---------------------------------------------------------------------------

\* Noise references: a dotted string, as the sequence of its parts.
NoiseRefs == {<<"r0">>, <<"r1">>, <<"noise_maps", "r0">>}
\* The noise models a caller holds, by identity.
NoiseModelIds == {"m1", "m2", "m3"}
\* f"noise_maps.{noise_ref}"
NoiseKey(noise_ref) == <<"noise_maps">> \o noise_ref
\* The keys of the dict _noise_models.
NoiseKeys(models) == {entry.key : entry \in models}
\* `noise_ref in self._noise_models`: the bare reference is looked up.
NoiseRefExists(noise_ref, models) == noise_ref \in NoiseKeys(models)
\* self._noise_models[key] = noise_model: an entry under the key is replaced.
SetItem(models, key, model) ==
    {entry \in models : entry.key # key} \cup {[key |-> key, model |-> model]}

\* Samplex.add_noise_model(noise_model)
AddNoiseModel(noise_ref, model) ==
    /\ IF NoiseRefExists(noise_ref, noise_models)
       THEN /\ noise_call' = [called |-> TRUE, noise_ref |-> noise_ref,
                              model |-> model, exc |-> "SamplexConstructionError"]
            /\ UNCHANGED noise_models
       ELSE /\ noise_models' = SetItem(noise_models, NoiseKey(noise_ref), model)
            /\ noise_call' = [called |-> TRUE, noise_ref |-> noise_ref,
                              model |-> model, exc |-> ""]
    /\ UNCHANGED notNoiseVars

\* The objects of the earlier sections, before anything is done with them.
BaseInit ==
    /\ SamplexInit
    /\ CallInit
    /\ NoInterface
    /\ NoSerialization
    /\ NoSerializers
    /\ NoBuilding
    /\ NoDynamic
    /\ NoDistribution

InitNoise ==
    /\ BaseInit
    /\ NoMore

NextNoise ==
    \E noise_ref \in NoiseRefs, model \in NoiseModelIds :
        AddNoiseModel(noise_ref, model)

SpecNoise == InitNoise /\ [][NextNoise]_vars

\* C24: adding a noise model to a samplex that already holds a model with the
\* same noise reference raises SamplexConstructionError and leaves the models
\* as they were, so the first model for a reference is never replaced.
C24_DuplicateNoiseRefRejected ==
    [][(\E entry \in noise_models : entry.key = NoiseKey(noise_call'.noise_ref))
        => /\ noise_call'.exc = "SamplexConstructionError"
           /\ noise_models' = noise_models]_vars

\* ---------------------------------------------------------------------------
\* GroupGatesIntoBoxes.run
\* ---------------------------------------------------------------------------

\* The longest circuit the pass is given.
MaxCircuit == 4

\* The node of an operation of the circuit.
Op(name, qargs, cargs) == [name |-> name, qargs |-> qargs, cargs |-> cargs]
\* The operations the circuits are made of.
CircuitOps ==
    {Op("h", <<"q1">>, << >>), Op("h", <<"q3">>, << >>),
     Op("cx", <<"q1", "q2">>, << >>), Op("cx", <<"q2", "q3">>, << >>),
     Op("cx", <<"q3", "q4">>, << >>),
     Op("barrier", <<"q1">>, << >>), Op("box", <<"q2", "q3">>, << >>),
     Op("measure", <<"q1">>, <<"c1">>),
     Op("ccx", <<"q1", "q2", "q3">>, << >>)}
\* The circuits: dag.topological_op_nodes() yields the nodes in this order.
Circuits == UNION {[1..n -> CircuitOps] : n \in 1..MaxCircuit}

\* d[k] of a defaultdict, without the insertion.
GetItem(d, k, default) == IF k \in DOMAIN d THEN d[k] ELSE default
\* d[k] = v
PutItem(d, k, v) == [x \in DOMAIN d \cup {k} |-> IF x = k THEN v ELSE d[x]]
\* d.pop(k, []) for every k of ks, for what is left in d.
PopItems(d, ks) == [x \in DOMAIN d \ ks |-> d[x]]

\* max(group_indices[bit] for bit in node.qargs + node.cargs)
GroupIdx(indices, node) ==
    Max({GetItem(indices, bit, 0) : bit \in Range(node.qargs \o node.cargs)})
\* Reading group_indices[bit] inserts the default for the bits it has not got.
ReadIndices(indices, node) ==
    [bit \in DOMAIN indices \cup Range(node.qargs \o node.cargs) |->
        GetItem(indices, bit, 0)]
\* group_indices[bit] = idx for every bit of bits
SetIndices(indices, bits, idx) ==
    [bit \in DOMAIN indices \cup bits |-> IF bit \in bits THEN idx ELSE indices[bit]]

\* Trackers that stay on the group the gate went into.
KeepTrackers(indices, qargs, group_idx) == SetIndices(indices, Range(qargs), group_idx)
\* for qubit in node.qargs: group_indices[qubit] = group_idx + 1
AdvanceTrackers(indices, qargs, group_idx) ==
    SetIndices(indices, Range(qargs), group_idx + 1)

\* for qubit in qargs: nodes += cached_gates_1q.pop(qubit, [])
RECURSIVE FlushCached(_, _, _)
FlushCached(nodes, cached, qargs) ==
    IF qargs = << >> THEN nodes
    ELSE FlushCached(nodes \o GetItem(cached, Head(qargs), << >>), cached, Tail(qargs))

\* groups.values(): the groups are inserted in ascending order of their index.
RECURSIVE GroupValues(_)
GroupValues(d) ==
    IF DOMAIN d = {} THEN << >>
    ELSE LET k == Min(DOMAIN d) IN <<d[k]>> \o GroupValues(PopItems(d, {k}))

\* make_and_insert_box(dag, nodes): a box that holds the nodes is added to
\* the boxes, and no box when there is no node.
make_and_insert_box(made, nodes) ==
    IF nodes = << >> THEN made ELSE Append(made, [nodes |-> nodes])

\* for nodes in groups.values(): make_and_insert_box(dag, nodes)
RECURSIVE InsertLoop(_, _)
InsertLoop(made, values) ==
    IF values = << >> THEN made
    ELSE InsertLoop(make_and_insert_box(made, Head(values)), Tail(values))

\* GroupGatesIntoBoxes.run(dag), up to its loop
Run(circuit) ==
    /\ group_call' = [pc |-> "loop", circuit |-> circuit, idx |-> 1, exc |-> ""]
    /\ cached_gates_1q' = << >>
    /\ groups' = << >>
    /\ group_indices' = << >>
    /\ boxes' = << >>
    /\ UNCHANGED notGroupingVars

\* One iteration of the loop over the nodes.
NodeLoop ==
    /\ group_call.pc = "loop"
    /\ group_call.idx <= Len(group_call.circuit)
    /\ LET i == group_call.idx
           node == group_call.circuit[i]
           indices == ReadIndices(group_indices, node)
           group_idx == GroupIdx(group_indices, node)
           flushed == FlushCached(GetItem(groups, group_idx, << >>),
                                  cached_gates_1q, node.qargs)
           next == [group_call EXCEPT !.idx = i + 1]
       IN  CASE node.name \in {"barrier", "box"} ->
                 /\ groups' = PutItem(groups, group_idx, flushed)
                 /\ cached_gates_1q' = PopItems(cached_gates_1q, Range(node.qargs))
                 /\ group_indices' = SetIndices(indices, Range(node.qargs), group_idx + 1)
                 /\ group_call' = next
            [] node.name = "measure" ->
                 /\ cached_gates_1q' = PopItems(cached_gates_1q, {node.qargs[1]})
                 /\ group_indices' =
                        SetIndices(indices, {node.qargs[1], node.cargs[1]}, group_idx)
                 /\ group_call' = next
                 /\ UNCHANGED groups
            [] node.name # "measure" /\ node.name \notin {"barrier", "box"}
                    /\ Len(node.qargs) = 1 ->
                 /\ cached_gates_1q' =
                        PutItem(cached_gates_1q, node.qargs[1],
                                GetItem(cached_gates_1q, node.qargs[1], << >>) \o <<i>>)
                 /\ group_indices' = indices
                 /\ group_call' = next
                 /\ UNCHANGED groups
            [] node.name # "measure" /\ node.name \notin {"barrier", "box"}
                    /\ Len(node.qargs) = 2 ->
                 /\ groups' = PutItem(groups, group_idx, flushed \o <<i>>)
                 /\ cached_gates_1q' = PopItems(cached_gates_1q, Range(node.qargs))
                 /\ group_indices' = AdvanceTrackers(indices, node.qargs, group_idx)
                 /\ group_call' = next
            [] OTHER ->
                 /\ group_call' = [group_call EXCEPT !.pc = "raised",
                                                     !.exc = "TranspilerError"]
                 /\ group_indices' = indices
                 /\ UNCHANGED <<groups, cached_gates_1q>>
    /\ UNCHANGED boxes
    /\ UNCHANGED notGroupingVars

\* The boxes are made and run returns the dag.
InsertBoxes ==
    /\ group_call.pc = "loop"
    /\ group_call.idx > Len(group_call.circuit)
    /\ boxes' = InsertLoop(<< >>, GroupValues(groups))
    /\ group_call' = [group_call EXCEPT !.pc = "done"]
    /\ UNCHANGED <<cached_gates_1q, groups, group_indices>>
    /\ UNCHANGED notGroupingVars

InitGrouping ==
    /\ BaseInit
    /\ NoMore

NextGrouping ==
    \/ /\ group_call.pc = "idle"
       /\ \E circuit \in Circuits : Run(circuit)
    \/ NodeLoop
    \/ InsertBoxes

SpecGrouping == InitGrouping /\ [][NextGrouping]_vars

\* The nodes of a box that hold a gate on two qubits or more.
MultiQubitNodes(box) ==
    {i \in Range(box.nodes) : Len(group_call.circuit[i].qargs) >= 2}
\* The multi-qubit gates of a box act on sets of qubits that do not overlap.
NonOverlapping(box) ==
    \A i, j \in MultiQubitNodes(box) :
        i # j => Range(group_call.circuit[i].qargs)
                    \cap Range(group_call.circuit[j].qargs) = {}
\* A barrier or a box that comes after node i acts on the qubit of node i.
Delimited(i) ==
    \E j \in (i + 1)..Len(group_call.circuit) :
        /\ group_call.circuit[j].name \in {"barrier", "box"}
        /\ Range(group_call.circuit[i].qargs) \subseteq Range(group_call.circuit[j].qargs)

MaxBranch == 4
MaxElseBranch == 2

IGNORED_OPS == {"barrier", "delay", "id"}
\* original_if_else.qubits
IfElseQubits == <<"q1", "q2">>
\* The instructions the branches are made of.
BranchOps ==
    {Op("s", <<"q1">>, << >>), Op("h", <<"q2">>, << >>),
     Op("cx", <<"q1", "q2">>, << >>), Op("barrier", <<"q1", "q2">>, << >>)}
\* instr.operation.params[k]: a circuit, or None for an if without an else.
Branch(circuit) == [none |-> FALSE, circuit |-> circuit]
NoBranch == [none |-> TRUE, circuit |-> << >>]
IfBranches == {Branch(c) : c \in UNION {[1..n -> BranchOps] : n \in 0..MaxBranch}}
ElseBranches ==
    {Branch(c) : c \in UNION {[1..n -> BranchOps] : n \in 0..MaxElseBranch}}
        \cup {NoBranch}

\* instr.operation.inverse()
Inverse(op) ==
    [op EXCEPT !.name = CASE op.name = "s" -> "sdg"
                          [] op.name = "sdg" -> "s"
                          [] OTHER -> op.name]

\* BranchSpecs.__init__, with qubit_status: the defaults of the defaultdicts.
BranchSpecs ==
    [none |-> FALSE,
     qubit_status |-> [q \in Range(IfElseQubits) |-> "leading"],
     leading_1q |-> [q \in Range(IfElseQubits) |-> << >>],
     trailing_1q |-> [q \in Range(IfElseQubits) |-> << >>],
     is_2q |-> [q \in Range(IfElseQubits) |-> FALSE]]
\* The None analyze_branch returns.
NoSpec == [BranchSpecs EXCEPT !.none = TRUE]

\* analyze_branch: the loop from instruction idx on (indices count from 1).
RECURSIVE BranchLoop(_, _, _)
BranchLoop(circuit, idx, spec) ==
    IF idx > Len(circuit) THEN spec
    ELSE LET instr == circuit[idx]
             q == instr.qargs[1]
         IN  IF instr.name \in IGNORED_OPS THEN BranchLoop(circuit, idx + 1, spec)
             ELSE IF Len(instr.qargs) = 1
             THEN IF spec.qubit_status[q] = "leading"
                  THEN BranchLoop(circuit, idx + 1,
                           [spec EXCEPT !.leading_1q[q] = Append(@, idx)])
                  ELSE BranchLoop(circuit, idx + 1,
                           [spec EXCEPT !.qubit_status[q] = "trailing",
                                        !.trailing_1q[q] = Append(@, idx)])
             ELSE IF \E qubit \in Range(instr.qargs) :
                         spec.qubit_status[qubit] = "trailing"
                  THEN NoSpec
                  ELSE BranchLoop(circuit, idx + 1,
                           [spec EXCEPT
                               !.qubit_status = [x \in DOMAIN @ |->
                                   IF x \in Range(instr.qargs) THEN "2q" ELSE @[x]],
                               !.is_2q = [x \in DOMAIN @ |->
                                   IF x \in Range(instr.qargs) THEN TRUE ELSE @[x]]])

\* analyze_branch(circuit), for a circuit that is not None
analyze_branch(circuit) == BranchLoop(circuit, 1, BranchSpecs)

\* [idx for idxs in branch_1q.values() for idx in idxs]
RECURSIVE AllIdxs(_, _)
AllIdxs(branch_1q, qubits) ==
    IF qubits = << >> THEN << >>
    ELSE branch_1q[Head(qubits)] \o AllIdxs(branch_1q, Tail(qubits))

\* find_ops_to_move(qubits, if_branch_1q, else_branch_1q)
find_ops_to_move(qubits, if_branch_1q, else_branch_1q) ==
    IF \E qubit \in Range(qubits) :
           if_branch_1q[qubit] # << >> /\ else_branch_1q[qubit] # << >>
    THEN [none |-> TRUE, from_if |-> << >>, from_else |-> << >>]
    ELSE [none |-> FALSE, from_if |-> AllIdxs(if_branch_1q, qubits),
          from_else |-> AllIdxs(else_branch_1q, qubits)]

\* The instructions of a circuit whose index is not in idxs.
Without(circuit, idxs) ==
    LET kept == {k \in 1..Len(circuit) : k \notin Range(idxs)}
        RECURSIVE Keep(_)
        Keep(k) == IF k > Len(circuit) THEN << >>
                   ELSE (IF k \in kept THEN <<circuit[k]>> ELSE << >>) \o Keep(k + 1)
    IN  Keep(1)
\* The instructions of a circuit at idxs.
Moved(circuit, idxs) == [k \in 1..Len(idxs) |-> circuit[idxs[k]]]
\* The inverses of the instructions of a circuit at idxs.
Inversed(circuit, idxs) == [k \in 1..Len(idxs) |-> Inverse(circuit[idxs[k]])]

\* What make_twirlable returns: None, or an IfElseTwirlableForm.
NoForm == [kind |-> "None"]
TwirlableAsIs == [kind |-> "form", instr |-> NoBranch, else_instr |-> NoBranch,
                  additional_1q_ops |-> << >>]

\* make_twirlable(original_if_else, if_spec, else_spec, dressing), for two
\* specs that are not None
make_twirlable(if_circuit, else_circuit, if_spec, else_spec, dressing) ==
    LET if_branch_1q == IF dressing = "left" THEN if_spec.trailing_1q
                        ELSE if_spec.leading_1q
        else_branch_1q == IF dressing = "left" THEN else_spec.trailing_1q
                          ELSE else_spec.leading_1q
        ops_to_move == find_ops_to_move(IfElseQubits,
            [q \in Range(IfElseQubits) |->
                IF if_spec.is_2q[q] THEN if_branch_1q[q] ELSE << >>],
            [q \in Range(IfElseQubits) |->
                IF else_spec.is_2q[q] THEN else_branch_1q[q] ELSE << >>])
        from_if == ops_to_move.from_if
        from_else == ops_to_move.from_else
    IN  IF ops_to_move.none THEN NoForm
        ELSE IF from_if = << >> /\ from_else = << >> THEN TwirlableAsIs
        ELSE [kind |-> "form",
              instr |-> Branch(Without(if_circuit, from_if)
                               \o Inversed(else_circuit, from_else)),
              else_instr |-> Branch(Without(else_circuit, from_else)
                                    \o Inversed(if_circuit, from_if)),
              additional_1q_ops |-> Moved(else_circuit, from_else)
                                    \o Moved(if_circuit, from_if)]

\* analyze_if_else_instruction(instr), for the instr the call holds
AnalyzeIfElse ==
    LET if_branch == analyze_call.if_branch
        else_branch == analyze_call.else_branch
        call == [analyze_call EXCEPT !.called = TRUE]
        if_spec == analyze_branch(if_branch.circuit)
        else_spec == analyze_branch(else_branch.circuit)
    IN  /\ ~analyze_call.called
        /\ analyze_call' =
            IF else_branch.none
            THEN \* enumerate(None)
                 [call EXCEPT !.exc = "TypeError"]
            ELSE IF if_spec.none \/ else_spec.none
            THEN \* if_spec.trailing_1q or else_spec.trailing_1q of None
                 [call EXCEPT !.exc = "AttributeError"]
            ELSE [call EXCEPT
                    !.left = make_twirlable(if_branch.circuit, else_branch.circuit,
                                            if_spec, else_spec, "left"),
                    !.right = make_twirlable(if_branch.circuit, else_branch.circuit,
                                             if_spec, else_spec, "right")]
        /\ UNCHANGED notAnalyzeVars

\* The if-else instructions analyze_if_else_instruction is called with.
InitAnalyze ==
    /\ BaseInit
    /\ NoNoise
    /\ NoGrouping
    /\ NoReplacing
    /\ NoRemoving
    /\ \E if_branch \in IfBranches, else_branch \in ElseBranches :
           analyze_call = [called |-> FALSE, if_branch |-> if_branch,
                           else_branch |-> else_branch,
                           left |-> NoForm, right |-> NoForm, exc |-> ""]

NextAnalyze == AnalyzeIfElse

SpecAnalyze == InitAnalyze /\ [][NextAnalyze]_vars

\* C26: analyze_if_else_instruction does not raise, whatever the if-else, and
\* when analyze_branch returns None for a branch (a 1Q-2Q-1Q-2Q pattern on a
\* qubit) both entries of the tuple it returns are None.
C26_AnalysisReturnsNone ==
    analyze_call.called =>
        /\ analyze_call.exc = ""
        /\ (\/ analyze_branch(analyze_call.if_branch.circuit).none
            \/ analyze_branch(analyze_call.else_branch.circuit).none)
           => analyze_call.left = NoForm /\ analyze_call.right = NoForm

\* ---------------------------------------------------------------------------
\* replace_nodes_with_one_node
\* ---------------------------------------------------------------------------

\* The graphs the function is given: their nodes and their number of edges.
MaxGraphNodes == 3
MaxGraphEdges == 3

\* A PyDiGraph: its node indices, its edges by edge index, and the indices
\* of removed edges, which add_edge gives out again, the last removed first.
RxEdge(parent, child, edge_data) ==
    [parent |-> parent, child |-> child, data |-> edge_data]
\* The graph with nodes 1..MaxGraphNodes and the edges ends[k], of data k.
RxGraph(ends) ==
    [nodes |-> 1..MaxGraphNodes,
     edges |-> [k \in 1..Len(ends) |-> RxEdge(ends[k][1], ends[k][2], k)],
     free |-> << >>]
RxGraphs ==
    {RxGraph(ends) : ends \in UNION {[1..n ->
        {pair \in (1..MaxGraphNodes) \X (1..MaxGraphNodes) : pair[1] # pair[2]}]
            : n \in 0..MaxGraphEdges}}
\* node_idxs: one node or more of the graph, each once.
NodeIdxs ==
    {idxs \in UNION {[1..n -> 1..MaxGraphNodes] : n \in 1..MaxGraphNodes} :
        \A i, j \in 1..Len(idxs) : i # j => idxs[i] # idxs[j]}

\* The indices of a set of edges, in ascending order.
RECURSIVE EdgeList(_)
EdgeList(idxs) ==
    IF idxs = {} THEN << >>
    ELSE LET k == Min(idxs) IN <<k>> \o EdgeList(idxs \ {k})
\* graph.out_edges(node_idx), graph.in_edges(node_idx): the indices of the edges
out_edges(graph, node_idx) ==
    EdgeList({k \in DOMAIN graph.edges : graph.edges[k].parent = node_idx})
in_edges(graph, node_idx) ==
    EdgeList({k \in DOMAIN graph.edges : graph.edges[k].child = node_idx})

\* The index graph.add_edge gives the next edge.
NewEdgeIdx(graph) ==
    IF graph.free # << >> THEN Head(graph.free)
    ELSE IF DOMAIN graph.edges = {} THEN 1 ELSE Max(DOMAIN graph.edges) + 1
\* graph.add_edge(parent, child, edge_data)
add_edge(graph, parent, child, edge_data) ==
    [graph EXCEPT
        !.edges = PutItem(@, NewEdgeIdx(graph), RxEdge(parent, child, edge_data)),
        !.free = IF @ # << >> THEN Tail(@) ELSE @]
\* The graph without the edges idxs, removed in the order of idxs.
RECURSIVE remove_edges(_, _)
remove_edges(graph, idxs) ==
    IF idxs = << >> THEN graph
    ELSE remove_edges([graph EXCEPT !.edges = PopItems(@, {Head(idxs)}),
                                    !.free = <<Head(idxs)>> \o @],
                      Tail(idxs))
\* graph.remove_node(node_idx): the node goes, and its edges, outgoing first.
remove_node(graph, node_idx) ==
    LET outgoing == out_edges(graph, node_idx)
        incoming == in_edges(remove_edges(graph, outgoing), node_idx)
    IN  [remove_edges(graph, outgoing \o incoming) EXCEPT !.nodes = @ \ {node_idx}]
\* graph.add_node(new_node): the index of the new node
NewNodeIdx(graph) == IF graph.nodes = {} THEN 1 ELSE Max(graph.nodes) + 1

\* What the loops of replace_nodes_with_one_node carry.
Replacing(graph, successor_edge_order, predecessor_edge_order) ==
    [graph |-> graph, successor_edge_order |-> successor_edge_order,
     predecessor_edge_order |-> predecessor_edge_order]

\* for _, child_node_idx, edge_data in graph.out_edges(node_idx): the edges
\* listed before the loop are re-added from the new node
RECURSIVE SuccessorLoop(_, _, _, _)
SuccessorLoop(r, listed, edges, new_node_idx) ==
    IF listed = << >> THEN r
    ELSE LET edge == edges[Head(listed)]
         IN  SuccessorLoop(
                 Replacing(add_edge(r.graph, new_node_idx, edge.child, edge.data),
                           Append(r.successor_edge_order, NewEdgeIdx(r.graph)),
                           r.predecessor_edge_order),
                 Tail(listed), edges, new_node_idx)

\* for parent_node_idx, _, edge_data in graph.in_edges(node_idx)
RECURSIVE PredecessorLoop(_, _, _, _)
PredecessorLoop(r, listed, edges, new_node_idx) ==
    IF listed = << >> THEN r
    ELSE LET edge == edges[Head(listed)]
         IN  PredecessorLoop(
                 Replacing(add_edge(r.graph, edge.parent, new_node_idx, edge.data),
                           r.successor_edge_order,
                           Append(r.predecessor_edge_order, NewEdgeIdx(r.graph))),
                 Tail(listed), edges, new_node_idx)

\* for node_idx in node_idxs: its edges are re-added and the node is removed
RECURSIVE RemoveLoop(_, _, _)
RemoveLoop(r, node_idxs, new_node_idx) ==
    IF node_idxs = << >> THEN r
    ELSE LET node_idx == Head(node_idxs)
             succ == SuccessorLoop(r, out_edges(r.graph, node_idx),
                                   r.graph.edges, new_node_idx)
             pred == PredecessorLoop(succ, in_edges(succ.graph, node_idx),
                                     succ.graph.edges, new_node_idx)
         IN  RemoveLoop([pred EXCEPT !.graph = remove_node(@, node_idx)],
                        Tail(node_idxs), new_node_idx)

\* The last loop: graph.remove_edge(parent, child) for every self-edge listed.
RemoveSelfEdges(graph, new_node_idx) ==
    remove_edges(graph,
        SelectSeq(out_edges(graph, new_node_idx),
                  LAMBDA k : graph.edges[k].parent = graph.edges[k].child))

\* replace_nodes_with_one_node(graph, node_idxs, new_node)
ReplaceNodesWithOneNode ==
    /\ ~replace_call.called
    /\ LET new_node_idx == NewNodeIdx(rx_graph)
           added == [rx_graph EXCEPT !.nodes = @ \cup {new_node_idx}]
           r == RemoveLoop(Replacing(added, << >>, << >>), replace_call.node_idxs,
                           new_node_idx)
       IN  /\ rx_graph' = RemoveSelfEdges(r.graph, new_node_idx)
           /\ replace_call' = [replace_call EXCEPT
                  !.called = TRUE,
                  !.new_node_idx = new_node_idx,
                  !.successor_edge_order = r.successor_edge_order,
                  !.predecessor_edge_order = r.predecessor_edge_order]
    /\ UNCHANGED notReplaceVars

\* The graphs and the nodes replace_nodes_with_one_node is called with.
InitReplace ==
    /\ BaseInit
    /\ NoNoise
    /\ NoGrouping
    /\ NoAnalysis
    /\ NoRemoving
    /\ rx_graph \in RxGraphs
    /\ \E node_idxs \in NodeIdxs :
           replace_call = [called |-> FALSE, node_idxs |-> node_idxs,
                           before |-> rx_graph, new_node_idx |-> 0,
                           successor_edge_order |-> << >>,
                           predecessor_edge_order |-> << >>]

NextReplace == ReplaceNodesWithOneNode

SpecReplace == InitReplace /\ [][NextReplace]_vars

\* The nodes that were replaced, and the edges the graph had before.
Replaced == Range(replace_call.node_idxs)
EdgesBefore == replace_call.before.edges
\* The position of the replaced node an edge of the new node comes from.
Origin(k) ==
    LET old == EdgesBefore[rx_graph.edges[k].data]
        node_idx == IF old.parent \in Replaced /\ rx_graph.edges[k].parent
                                                      = replace_call.new_node_idx
                    THEN old.parent ELSE old.child
    IN  CHOOSE i \in 1..Len(replace_call.node_idxs) :
            replace_call.node_idxs[i] = node_idx
\* A list holds each edge of a set once, in the order of node_idxs.
ListsInOrder(order, edges) ==
    /\ Range(order) = edges
    /\ Len(order) = Cardinality(edges)
    /\ \A i, j \in 1..Len(order) : i < j => Origin(order[i]) <= Origin(order[j])

\* Every edge between a replaced node and a node outside is an edge between
\* the new node and that node, of the same data.
C27_EdgesPreserved ==
    replace_call.called =>
        \A k \in DOMAIN EdgesBefore :
            LET old == EdgesBefore[k] IN
            /\ old.parent \in Replaced /\ old.child \notin Replaced =>
                   Cardinality({e \in DOMAIN rx_graph.edges : rx_graph.edges[e] =
                       RxEdge(replace_call.new_node_idx, old.child, k)}) = 1
            /\ old.parent \notin Replaced /\ old.child \in Replaced =>
                   Cardinality({e \in DOMAIN rx_graph.edges : rx_graph.edges[e] =
                       RxEdge(old.parent, replace_call.new_node_idx, k)}) = 1
            /\ old.parent \notin Replaced /\ old.child \notin Replaced =>
                   k \in DOMAIN rx_graph.edges /\ rx_graph.edges[k] = old

\* The edges among the replaced nodes are gone: the replaced nodes are, and
\* the new node has no self-loop and no edge but those of C27_EdgesPreserved.
C27_NoIntraEdges ==
    replace_call.called =>
        /\ rx_graph.nodes = (replace_call.before.nodes \ Replaced)
                                \cup {replace_call.new_node_idx}
        /\ \A e \in DOMAIN rx_graph.edges :
               /\ {rx_graph.edges[e].parent, rx_graph.edges[e].child}
                      \subseteq rx_graph.nodes
               /\ rx_graph.edges[e].parent # rx_graph.edges[e].child
               /\ LET old == EdgesBefore[rx_graph.edges[e].data]
                  IN  ~(old.parent \in Replaced /\ old.child \in Replaced)

\* The lists returned hold the indices of the edges from and to the new node.
C27_IndicesReturned ==
    replace_call.called =>
        /\ ListsInOrder(replace_call.successor_edge_order,
               {e \in DOMAIN rx_graph.edges :
                   rx_graph.edges[e].parent = replace_call.new_node_idx})
        /\ ListsInOrder(replace_call.predecessor_edge_order,
               {e \in DOMAIN rx_graph.edges :
                   rx_graph.edges[e].child = replace_call.new_node_idx})

\* C27: replace_nodes_with_one_node keeps every edge between a replaced node
\* and a node outside, as an edge of the new node with the same data, removes
\* the edges among the replaced nodes, and returns the indices of the edges
\* from and to the new node, in the order of node_idxs.
C27_ReplacementPreservesEdges ==
    C27_EdgesPreserved /\ C27_NoIntraEdges /\ C27_IndicesReturned

\* ---------------------------------------------------------------------------
\* Interface.bind: what a call that raises leaves
\* ---------------------------------------------------------------------------

\* bind(**kwargs) raises: a name has no specification (ValueError) or a
\* value fails validate_and_coerce.
BindRaises(the_specs, kwargs) ==
    \E k \in 1..Len(kwargs) :
        kwargs[k][1] \notin the_specs \/ ~ValidateAndCoerce(kwargs[k][2])

\* C28: a bind call that raises, because a name has no specification or a
\* value fails validation, leaves the bound values as they were before the
\* call, whatever the order of the names in the call.
C28_BindAtomic ==
    [][\A n \in 1..MaxBind : \A kwargs \in KwargsOf(n) :
          (BindRaises(specs, kwargs) /\ data' = BindLoop(specs, data, kwargs))
              => data' = data]_vars

\* ---------------------------------------------------------------------------
\* Samplex.add_node, Samplex.add_edge: what a call that raises leaves
\* ---------------------------------------------------------------------------

\* C29: an add_node or add_edge call that raises leaves the samplex as it
\* was: the graph gains no node and no edge, and a samplex that was
\* finalized before the call is finalized after it.
C29_RaisingAddLeavesSamplex ==
    [][/\ \A id \in NodeIds :
              (AddNode(id) /\ AddNodeRaises(NodeOf(id))) => UNCHANGED samplexVars
       /\ \A a, b \in 1..MaxNodes :
              (AddEdge(a, b) /\ AddEdgeRaises(a, b)) => UNCHANGED samplexVars]_vars

\* ---------------------------------------------------------------------------
\* RemoveBoxes.run
\* ---------------------------------------------------------------------------

\* The longest dag and the longest body of a box.
MaxDagOps == 2
MaxBoxBody == 2

\* The qubits of the dag, of the body of a box, and of the body of a box
\* inside a box.
DagQubits == {"q1", "q2"}
\* A box: an operation named box that holds a body and the qubits of the body.
BoxOp(qargs, body_qubits, body) ==
    [name |-> "box", qargs |-> qargs, cargs |-> << >>,
     body_qubits |-> body_qubits, body |-> body]
\* An operation that is no box, with the fields of one.
GateOp(name, qargs) ==
    [name |-> name, qargs |-> qargs, cargs |-> << >>,
     body_qubits |-> << >>, body |-> << >>]
\* A box inside the body of a box.
InnerBox == BoxOp(<<"b1">>, <<"i1">>, <<GateOp("z", <<"i1">>)>>)
\* The bodies of the boxes on one qubit and on two.
Bodies1 ==
    UNION {[1..n -> {GateOp("x", <<"b1">>), InnerBox}] : n \in 1..MaxBoxBody}
Bodies2 ==
    UNION {[1..n -> {GateOp("h", <<"b1">>), GateOp("cx", <<"b1", "b2">>)}]
              : n \in 1..MaxBoxBody}
\* The operations of the dags.
DagOps ==
    {GateOp("h", <<"q1">>), GateOp("cx", <<"q1", "q2">>)}
        \cup {BoxOp(<<"q1">>, <<"b1">>, body) : body \in Bodies1}
        \cup {BoxOp(<<"q2", "q1">>, <<"b1", "b2">>, body) : body \in Bodies2}
\* The dags: dag.op_nodes() lists the nodes in this order.
Dags == UNION {[1..n -> DagOps] : n \in 1..MaxDagOps}

\* dict(zip(body.qubits, node.qargs))[qubit]
QubitMap(body_qubits, qargs, qubit) ==
    qargs[CHOOSE k \in 1..Len(body_qubits) : body_qubits[k] = qubit]
\* [qubit_map[qubit] for qubit in body_node.qargs]
MapQargs(body_qubits, qargs, body_qargs) ==
    [k \in 1..Len(body_qargs) |-> QubitMap(body_qubits, qargs, body_qargs[k])]

\* What a dag is after operations were applied to it: dag.apply_operation_back
\* raises DAGCircuitError for a qubit the dag has not got.
Applied(dag, exc) == [dag |-> dag, exc |-> exc]
apply_operation_back(applied, op, qargs) ==
    IF applied.exc # "" THEN applied
    ELSE IF ~(Range(qargs) \subseteq DagQubits)
    THEN Applied(applied.dag, "DAGCircuitError")
    ELSE Applied(Append(applied.dag, [op EXCEPT !.qargs = qargs]), "")

\* RemoveBoxes._inline_box(dag, node): the loop over the body from idx on
RECURSIVE InlineLoop(_, _, _)
InlineLoop(applied, node, idx) ==
    IF idx > Len(node.body) \/ applied.exc # "" THEN applied
    ELSE LET body_node == node.body[idx]
         IN  IF body_node.name = "box"
             THEN InlineLoop(InlineLoop(applied, body_node, 1), node, idx + 1)
             ELSE InlineLoop(
                      apply_operation_back(applied, body_node,
                          MapQargs(node.body_qubits, node.qargs, body_node.qargs)),
                      node, idx + 1)
\* RemoveBoxes._inline_box(dag, node)
inline_box(applied, node) == InlineLoop(applied, node, 1)

\* What the loop of run carries: the dag it was given and the dag it makes.
RECURSIVE RunLoop(_, _, _, _)
RunLoop(nodes, idx, applied, new_dag) ==
    IF idx > Len(nodes) \/ applied.exc # ""
    THEN [dag |-> applied.dag, new_dag |-> new_dag, exc |-> applied.exc]
    ELSE IF nodes[idx].name = "box"
    THEN \* self._inline_box(dag, node)
         RunLoop(nodes, idx + 1, inline_box(applied, nodes[idx]), new_dag)
    ELSE \* new_dag.apply_operation_back(node.op, node.qargs, node.cargs)
         RunLoop(nodes, idx + 1, applied, Append(new_dag, nodes[idx]))

\* RemoveBoxes.run(dag)
RemoveBoxesRun ==
    /\ ~remove_call.called
    /\ LET r == RunLoop(box_dag, 1, Applied(box_dag, ""), << >>)
       IN  /\ box_dag' = r.dag
           /\ remove_call' = [remove_call EXCEPT
                  !.called = TRUE,
                  !.new_dag = IF r.exc = "" THEN r.new_dag ELSE << >>,
                  !.exc = r.exc]
    /\ UNCHANGED notRemoveVars

\* The dags RemoveBoxes.run is called with.
InitRemove ==
    /\ BaseInit
    /\ NoNoise
    /\ NoGrouping
    /\ NoAnalysis
    /\ NoReplacing
    /\ box_dag \in Dags
    /\ remove_call = [called |-> FALSE, circuit |-> box_dag, new_dag |-> << >>,
                      exc |-> ""]

NextRemove == RemoveBoxesRun

SpecRemove == InitRemove /\ [][NextRemove]_vars

\* The operations of a circuit with every box replaced by the operations of
\* its body, mapped onto the qubits the box acts on.
RECURSIVE Unboxed(_, _, _)
Unboxed(ops, body_qubits, qargs) ==
    IF ops = << >> THEN << >>
    ELSE LET op == Head(ops)
             mapped == IF body_qubits = << >> THEN op.qargs
                       ELSE MapQargs(body_qubits, qargs, op.qargs)
         IN  (IF op.name = "box" THEN Unboxed(op.body, op.body_qubits, mapped)
              ELSE <<[op EXCEPT !.qargs = mapped]>>)
                 \o Unboxed(Tail(ops), body_qubits, qargs)
\* The operations of a circuit that act on a qubit, in their order.
OnQubit(ops, qubit) == SelectSeq(ops, LAMBDA op : qubit \in Range(op.qargs))

\* C30: the circuit RemoveBoxes returns holds every operation of the input
\* once and in the same order on every qubit, each box replaced by the
\* operations of its body on the qubits the box acted on, nested boxes too.
C30_BoxesInlined ==
    remove_call.called =>
        /\ remove_call.exc = ""
        /\ \A qubit \in DagQubits :
               OnQubit(remove_call.new_dag, qubit)
                   = OnQubit(Unboxed(remove_call.circuit, << >>, << >>), qubit)


====
